---- MODULE Spec2Model ----
(***************************************************************************)
(* PDF ingestion backend: the metadata table `pdfs` (models.py), the S3     *)
(* bucket (s3_service.py), the OpenSearch vector index                     *)
(* (opensearch_service.py) and the request handlers of the two routers     *)
(* (routers/pdf_db.py and the /api/v1 router routers/pdf.py), which share   *)
(* the table, the bucket and the index.                                    *)
(*                                                                         *)
(* One action is one HTTP request handled from start to finish; the        *)
(* outcomes of the collaborators' network calls (S3, OpenSearch, the       *)
(* database commit) are chosen with \E.                                    *)
(*                                                                         *)
(* Status values are the member names of models.PDFStatus.  An attribute   *)
(* access PDFStatus.X with X not a member raises AttributeError (Python    *)
(* enum), which the handlers' `except Exception` turns into a 500.         *)
(***************************************************************************)
EXTENDS Integers, Sequences, FiniteSets, TLC

\* ------------------------------------------------------------- bounds
MaxDocs == 1
MaxUuid == 1
\* successful parse calls counted per document
MaxParses == 2
\* rows created by upload requests alone
MaxUploads == 4
\* parse requests in flight at the same time
MaxWorkers == 2
\* characters of an extracted text
MaxLen == 5
\* sentences of a PDF whose index entries are cleaned up
MaxSentences == 11

\* --------------------------------------------------- values and helpers
Range(s) == {s[i] : i \in DOMAIN s}

\* Python None for PDF.file_size (Column(Integer), nullable)
NoSize == -1
\* Python None for PDF.vector_index_id (nullable String)
NoIndexId == <<>>
\* Python None for PDF.content_summary (nullable Text)
NoSummary == "None"
\* no key / no id / no filename in a response
NoKey == <<0, <<>>>>
NoId == 0
NoName == <<>>

\* models.py: class PDFStatus(enum.Enum)
PDFStatus == {"PRE_SIGNED", "UPLOADED", "PARSED"}

\* PDFStatus.<name>: defined iff <name> is a member; otherwise the access
\* raises AttributeError.
HasMember(name) == name \in PDFStatus

\* the summary both routers store after indexing
ContentSummary == "PDF content has been extracted, embedded, and indexed in vector database"

\* request filenames, as character sequences ("A.pdf", "notes")
Filenames == { <<"A", ".", "p", "d", "f">>, <<"n", "o", "t", "e", "s">> }

\* str.split('.'): the pieces between periods, in order
RECURSIVE split(_)
split(s) ==
    IF s = <<>> THEN << <<>> >>
    ELSE LET rest == split(Tail(s)) IN
         IF Head(s) = "." THEN << <<>> >> \o rest
         ELSE << <<Head(s)>> \o Head(rest) >> \o Tail(rest)

Whitespace == {" ", "\n"}

RECURSIVE lstrip(_)
lstrip(s) == IF s # <<>> /\ Head(s) \in Whitespace THEN lstrip(Tail(s)) ELSE s

RECURSIVE rstrip(_)
rstrip(s) ==
    IF s # <<>> /\ s[Len(s)] \in Whitespace THEN rstrip(SubSeq(s, 1, Len(s) - 1)) ELSE s

\* str.strip()
strip(s) == rstrip(lstrip(s))

\* the loop of parse_pdf_content appending line instead of line.strip()
RECURSIVE keep_nonblank_untrimmed(_)
keep_nonblank_untrimmed(pieces) ==
    IF pieces = <<>> THEN <<>>
    ELSE IF strip(Head(pieces)) # <<>>
         THEN <<Head(pieces)>> \o keep_nonblank_untrimmed(Tail(pieces))
         ELSE keep_nonblank_untrimmed(Tail(pieces))

\* the loop of parse_pdf_content over page_content.split('.')
RECURSIVE keep_nonblank(_)
keep_nonblank(pieces) ==
    IF pieces = <<>> THEN <<>>
    ELSE IF strip(Head(pieces)) # <<>>
         THEN <<strip(Head(pieces))>> \o keep_nonblank(Tail(pieces))
         ELSE keep_nonblank(Tail(pieces))

\* OpenSearchService.parse_pdf_content on the text PyMuPDF extracts
\* (mode="single", pages_delimiter="": one document holding all pages)
parse_pdf_content(text) == keep_nonblank(split(text))

\* S3Service.generate_presigned_url: file_extension
file_extension(filename) ==
    IF "." \in Range(filename)
    THEN LET parts == split(filename) IN parts[Len(parts)]
    ELSE <<"p", "d", "f">>

\* objects a client may PUT through a pre-signed URL: the byte size S3
\* reports, whether PyMuPDF can open the bytes, and the text it extracts
EmptyObject == [size |-> 0, readable |-> FALSE, text |-> <<>>]
TwoSentences == [size |-> 7, readable |-> TRUE, text |-> <<"a", ".", " ", "b", ".">>]
BlankPage == [size |-> 5, readable |-> TRUE, text |-> <<" ">>]
Blobs == {EmptyObject, TwoSentences, BlankPage}

VARIABLES
    pdfs,      \* table pdfs: id -> row
    next_id,   \* the table's AUTO_INCREMENT
    uuid,      \* number of uuid4() keys stored in a row or returned in a response
    urls,      \* keys of the pre-signed PUT URLs handed to clients, not yet used
    s3,        \* bucket: key -> object
    index,     \* vector index: document _id -> body
    resp,      \* the request just handled and its response
    parses,    \* history: id -> number of parse calls answered with 200
    calls,     \* parse requests in flight, handled step by step: worker -> frame
    chat       \* the chat request just handled and its result

\* what the requests handled in one step leave alone
aux == <<parses, calls, chat>>

vars == <<pdfs, next_id, uuid, urls, s3, index, resp, parses, calls, chat>>

\* ------------------------------------------------------------ the state
Empty == [x \in {} |-> x]
Without(f, k) == [x \in DOMAIN f \ {k} |-> f[x]]

\* the part of the state a handler reads and writes
St == [pdfs |-> pdfs, next_id |-> next_id, uuid |-> uuid, urls |-> urls,
       s3 |-> s3, index |-> index]

\* models.py: class PDF; file_size, vector_index_id and content_summary are
\* unset by the constructor calls of the routers
PDF(filename, s3_key, status) ==
    [filename |-> filename, s3_key |-> s3_key, file_size |-> NoSize,
     status |-> status, vector_index_id |-> NoIndexId, content_summary |-> NoSummary]

\* a request and the response to it: the HTTP status code, the error detail
\* (without the cause appended after the colon) and the response fields
Response(op, filename, pdf_id, code, detail, ret_id, ret_key, url_key) ==
    [op |-> op, filename |-> filename, pdf_id |-> pdf_id, code |-> code,
     detail |-> detail, ret_id |-> ret_id, ret_key |-> ret_key, url_key |-> url_key]

Result(st, r) == [st |-> st, resp |-> r]

\* ---------------------------------------------------------- s3_service
\* unique_key without the uuid: pdfs/{filename}
unique_key_of_filename(n, filename) == <<0, filename>>

\* S3Service.generate_presigned_url: unique_key = pdfs/{uuid4()}.{ext}; the
\* s3_key argument is not read.  The key is <<n, ext>> for the n-th uuid; a
\* uuid that is lost with its request (an exception before the key is stored
\* or returned) is not counted, the next key being fresh either way.
unique_key(n, filename) == <<n, file_extension(filename)>>

\* S3Service.get_file_size: ContentLength, or None on ClientError (also the
\* 404 of a missing key)
get_file_size(bucket, s3_key, head_ok) ==
    IF head_ok /\ s3_key \in DOMAIN bucket THEN bucket[s3_key].size ELSE NoSize

\* S3Service.delete_file: delete_object (S3 answers 204 for a missing key too)
delete_file(bucket, s3_key) == Without(bucket, s3_key)

\* Python truthiness of Optional[int]: `if file_size:`
Truthy(file_size) == file_size # NoSize /\ file_size # 0

\* ---------------------------------------------------- opensearch_service
\* SentenceTransformer.encode: a deterministic function of the text
encode(text) == <<"all-MiniLM-L6-v2", text>>

\* segment_id without the document: f"{i}"
segment_id_by_number(pdf_id, i) == <<0, i>>

\* segment_id = f"{pdf_id}_{i}"
segment_id(pdf_id, i) == <<pdf_id, i>>

\* vector_index_id = f"pdf_{pdf_id}"
vector_index_id(pdf_id) == <<"pdf_", pdf_id>>

\* the body analyze_and_index_pdf indexes for segment i
doc(pdf_id, filename, i, text) ==
    [pdf_id |-> pdf_id, filename |-> filename, text |-> text, vector |-> encode(text),
     title |-> <<filename, "_segment_", i>>, author |-> <<"pdf_", pdf_id>>]

\* client.index without an id: every call adds a document under a new _id
Upsert_append(ix, id, body) ==
    LET n == Cardinality(DOMAIN ix)
        fresh == IF id \in DOMAIN ix THEN <<id[1], id[2], n>> ELSE id
    IN  [x \in DOMAIN ix \cup {fresh} |-> IF x = fresh THEN body ELSE ix[x]]

\* client.index(index, id, body): create or overwrite by id
Upsert(ix, id, body) == [x \in DOMAIN ix \cup {id} |-> IF x = id THEN body ELSE ix[x]]

RECURSIVE IndexSegments(_, _, _, _, _)
IndexSegments(ix, pdf_id, filename, texts, upto) ==
    IF upto = 0 THEN ix
    ELSE Upsert(IndexSegments(ix, pdf_id, filename, texts, upto - 1),
                segment_id(pdf_id, upto - 1),
                doc(pdf_id, filename, upto - 1, texts[upto]))

\* analyze_and_index_pdf with the exception of a failed upsert swallowed
analyze_and_index_pdf_swallow(ix, bucket, pdf_id, filename, s3_key, get_ok, fail_at) ==
    IF ~get_ok \/ s3_key \notin DOMAIN bucket
    THEN [ok |-> FALSE, index |-> ix, vector_index_id |-> NoIndexId]
    ELSE IF ~bucket[s3_key].readable
    THEN [ok |-> FALSE, index |-> ix, vector_index_id |-> NoIndexId]
    ELSE LET texts == parse_pdf_content(bucket[s3_key].text)
             n == Len(texts)
             upto == IF fail_at < n THEN fail_at ELSE n
         IN  [ok |-> TRUE,
              index |-> IndexSegments(ix, pdf_id, filename, texts, upto),
              vector_index_id |-> vector_index_id(pdf_id)]

\* analyze_and_index_pdf removing the entries it has written when an upsert
\* raises
analyze_and_index_pdf_undo(ix, bucket, pdf_id, filename, s3_key, get_ok, fail_at) ==
    IF ~get_ok \/ s3_key \notin DOMAIN bucket
    THEN [ok |-> FALSE, index |-> ix, vector_index_id |-> NoIndexId]
    ELSE IF ~bucket[s3_key].readable
    THEN [ok |-> FALSE, index |-> ix, vector_index_id |-> NoIndexId]
    ELSE LET texts == parse_pdf_content(bucket[s3_key].text)
             n == Len(texts)
         IN  IF fail_at < n
             THEN [ok |-> FALSE, index |-> ix, vector_index_id |-> NoIndexId]
             ELSE [ok |-> TRUE,
                   index |-> IndexSegments(ix, pdf_id, filename, texts, n),
                   vector_index_id |-> vector_index_id(pdf_id)]

\* OpenSearchService.analyze_and_index_pdf.  get_ok: get_object succeeds (it
\* fails anyway for a missing key); fail_at: the upserts 0..fail_at-1 succeed
\* and the next one raises (none raises when fail_at >= number of segments).
\* Every exception is re-raised (line 158): ok = FALSE.
analyze_and_index_pdf(ix, bucket, pdf_id, filename, s3_key, get_ok, fail_at) ==
    IF ~get_ok \/ s3_key \notin DOMAIN bucket
    THEN [ok |-> FALSE, index |-> ix, vector_index_id |-> NoIndexId]
    ELSE IF ~bucket[s3_key].readable
    THEN [ok |-> FALSE, index |-> ix, vector_index_id |-> NoIndexId]
    ELSE LET texts == parse_pdf_content(bucket[s3_key].text)
             n == Len(texts)
         IN  IF fail_at < n
             THEN [ok |-> FALSE,
                   index |-> IndexSegments(ix, pdf_id, filename, texts, fail_at),
                   vector_index_id |-> NoIndexId]
             ELSE [ok |-> TRUE,
                   index |-> IndexSegments(ix, pdf_id, filename, texts, n),
                   vector_index_id |-> vector_index_id(pdf_id)]

\* the number of hits client.search returns when the body gives no size
DefaultSearchSize == 10

\* the hits of the term query on pdf_id, at most DefaultSearchSize of them,
\* in the order of the segment number
Hits(ix, pdf_id) ==
    LET matching == {id \in DOMAIN ix : ix[id].pdf_id = pdf_id} IN
    {id \in matching :
        Cardinality({other \in matching : other[2] < id[2]}) < DefaultSearchSize}

\* OpenSearchService.delete_pdf_from_index.  search_ok: the search succeeds;
\* fail_at: the first fail_at hits are deleted and the next delete raises
\* (none raises when fail_at >= number of hits).
delete_pdf_from_index(ix, vid, search_ok, fail_at) ==
    LET pdf_id == vid[2]     \* int(vector_index_id.replace("pdf_", ""))
        hits == Hits(ix, pdf_id)
        done == {id \in hits : Cardinality({other \in hits : other[2] < id[2]}) < fail_at}
    IN  IF ~search_ok THEN [ok |-> FALSE, index |-> ix]
        ELSE [ok |-> fail_at >= Cardinality(hits),
              index |-> [id \in DOMAIN ix \ done |-> ix[id]]]

\* ------------------------------------------------------ routers/pdf_db.py
\* the rows .filter(PDF.filename == filename) matches; .first() returns one
\* of them, or None (NoId) when there is none
Matching(filename) == {id \in DOMAIN pdfs : pdfs[id].filename = filename}

\* upload_pdf (POST /upload-pdf).  existing_pdf: what .first() returned.
\* Every exception, the HTTPException of line 41 included, reaches the
\* `except Exception` of line 66 and is answered with a 500.
pdf_db_upload_pdf(filename, existing_pdf, presign_ok, commit_ok) ==
    LET key == unique_key(uuid + 1, filename)
        drawn == [St EXCEPT !.uuid = uuid + 1]
        error == Response("upload-pdf", filename, NoId, 500,
                          "Error creating upload URL", NoId, NoKey, NoKey)
    IN
    IF existing_pdf # NoId
    THEN IF ~HasMember("PENDING") THEN Result(St, error)
         ELSE IF pdfs[existing_pdf].status = "PENDING"
         THEN IF ~presign_ok THEN Result(St, error)
              ELSE Result([drawn EXCEPT !.urls = @ \cup {key}],
                          Response("upload-pdf", filename, NoId, 200, "",
                                   existing_pdf, pdfs[existing_pdf].s3_key, key))
         ELSE Result(St, error)
    ELSE IF ~presign_ok THEN Result(St, error)
         ELSE IF ~HasMember("PENDING") THEN Result(St, error)
         ELSE IF ~commit_ok THEN Result(St, error)
         ELSE Result([drawn EXCEPT !.pdfs = @ @@ (next_id :> PDF(filename, key, "PENDING")),
                                   !.next_id = @ + 1,
                                   !.urls = @ \cup {key}],
                     Response("upload-pdf", filename, NoId, 200, "", next_id, key, key))

\* confirm_pdf_upload without the check of the current status
confirm_pdf_upload_unguarded(pdf_id, head_ok, commit_ok) ==
    LET error == Response("upload-pdf-confirm", NoName, pdf_id, 500,
                          "Error confirming PDF upload", NoId, NoKey, NoKey)
    IN
    IF pdf_id \notin DOMAIN pdfs
    THEN Result(St, Response("upload-pdf-confirm", NoName, pdf_id, 404,
                             "PDF not found", NoId, NoKey, NoKey))
    ELSE LET file_size == get_file_size(s3, pdfs[pdf_id].s3_key, head_ok)
             row == [pdfs[pdf_id] EXCEPT
                        !.status = "UPLOADED",
                        !.file_size = IF Truthy(file_size) THEN file_size ELSE @]
         IN  IF ~commit_ok THEN Result(St, error)
             ELSE Result([St EXCEPT !.pdfs = [pdfs EXCEPT ![pdf_id] = row]],
                         Response("upload-pdf-confirm", NoName, pdf_id, 200,
                                  "PDF upload confirmed successfully", pdf_id, NoKey, NoKey))

\* confirm_pdf_upload (POST /upload-pdf-confirm)
confirm_pdf_upload(pdf_id, head_ok, commit_ok) ==
    LET error == Response("upload-pdf-confirm", NoName, pdf_id, 500,
                          "Error confirming PDF upload", NoId, NoKey, NoKey)
    IN
    IF pdf_id \notin DOMAIN pdfs
    THEN Result(St, Response("upload-pdf-confirm", NoName, pdf_id, 404,
                             "PDF not found", NoId, NoKey, NoKey))
    ELSE IF ~HasMember("PENDING") THEN Result(St, error)
    ELSE IF pdfs[pdf_id].status # "PENDING"
    THEN Result(St, Response("upload-pdf-confirm", NoName, pdf_id, 400,
                             "PDF status is not PENDING", NoId, NoKey, NoKey))
    ELSE IF ~HasMember("UPLOADED") THEN Result(St, error)
    ELSE LET file_size == get_file_size(s3, pdfs[pdf_id].s3_key, head_ok)
             row == [pdfs[pdf_id] EXCEPT
                        !.status = "UPLOADED",
                        !.file_size = IF Truthy(file_size) THEN file_size ELSE @]
         IN  IF ~commit_ok THEN Result(St, error)
             ELSE Result([St EXCEPT !.pdfs = [pdfs EXCEPT ![pdf_id] = row]],
                         Response("upload-pdf-confirm", NoName, pdf_id, 200,
                                  "PDF upload confirmed successfully", pdf_id, NoKey, NoKey))

\* parse_pdf without `except HTTPException: raise`: the 404 and the 400s
\* raised inside the try are caught by `except Exception` and answered as 500
parse_pdf_no_reraise(pdf_id, get_ok, fail_at, commit_ok) ==
    Result(St, Response("parse-pdf", NoName, pdf_id, 500,
                        "Error parsing PDF", NoId, NoKey, NoKey))

\* parse_pdf (POST /parse-pdf)
parse_pdf(pdf_id, get_ok, fail_at, commit_ok) ==
    LET error == Response("parse-pdf", NoName, pdf_id, 500,
                          "Error parsing PDF", NoId, NoKey, NoKey)
    IN
    IF pdf_id \notin DOMAIN pdfs
    THEN Result(St, Response("parse-pdf", NoName, pdf_id, 404,
                             "PDF not found", NoId, NoKey, NoKey))
    ELSE IF ~HasMember("INDEXED") THEN Result(St, error)
    ELSE IF pdfs[pdf_id].status = "INDEXED"
    THEN Result(St, Response("parse-pdf", NoName, pdf_id, 400,
                             "PDF is already indexed", NoId, NoKey, NoKey))
    ELSE IF ~HasMember("PENDING") THEN Result(St, error)
    ELSE IF pdfs[pdf_id].status = "PENDING"
    THEN Result(St, Response("parse-pdf", NoName, pdf_id, 400,
                             "PDF has not been uploaded yet", NoId, NoKey, NoKey))
    ELSE LET a == analyze_and_index_pdf(index, s3, pdf_id, pdfs[pdf_id].filename,
                                        pdfs[pdf_id].s3_key, get_ok, fail_at)
             row == [pdfs[pdf_id] EXCEPT
                        !.status = "INDEXED",
                        !.vector_index_id = a.vector_index_id,
                        !.content_summary = ContentSummary]
         IN  IF ~a.ok \/ ~commit_ok
             THEN Result([St EXCEPT !.index = a.index], error)
             ELSE Result([St EXCEPT !.index = a.index,
                                    !.pdfs = [pdfs EXCEPT ![pdf_id] = row]],
                         Response("parse-pdf", NoName, pdf_id, 200,
                                  "PDF parsed and indexed successfully", pdf_id, NoKey, NoKey))

\* --------------------------------------------------------- routers/pdf.py
\* upload_pdf (POST /api/v1/upload_pdf)
pdf_upload_pdf(filename, presign_ok, commit_ok) ==
    LET key == unique_key(uuid + 1, filename)
        drawn == [St EXCEPT !.uuid = uuid + 1]
        error == Response("upload_pdf", filename, NoId, 500,
                          "Error creating upload URL", NoId, NoKey, NoKey)
    IN
    IF ~presign_ok THEN Result(St, error)
    ELSE IF ~HasMember("PRE_SIGNED") THEN Result(St, error)
    ELSE IF ~commit_ok THEN Result(St, error)
    ELSE Result([drawn EXCEPT !.pdfs = @ @@ (next_id :> PDF(filename, key, "PRE_SIGNED")),
                              !.next_id = @ + 1,
                              !.urls = @ \cup {key}],
                Response("upload_pdf", filename, NoId, 200, "", next_id, key, key))

\* mark_uploaded without `pdf.status = PDFStatus.UPLOADED`: only the size is
\* written
mark_uploaded_size_only(pdf_id, head_ok, commit_ok) ==
    LET error == Response("mark_uploaded", NoName, pdf_id, 500,
                          "Error marking PDF as uploaded", NoId, NoKey, NoKey)
    IN
    IF pdf_id \notin DOMAIN pdfs
    THEN Result(St, Response("mark_uploaded", NoName, pdf_id, 404,
                             "PDF not found", NoId, NoKey, NoKey))
    ELSE LET file_size == get_file_size(s3, pdfs[pdf_id].s3_key, head_ok)
             row == [pdfs[pdf_id] EXCEPT
                        !.file_size = IF Truthy(file_size) THEN file_size ELSE @]
         IN  IF ~commit_ok THEN Result(St, error)
             ELSE Result([St EXCEPT !.pdfs = [pdfs EXCEPT ![pdf_id] = row]],
                         Response("mark_uploaded", NoName, pdf_id, 200,
                                  "PDF marked as uploaded", pdf_id, NoKey, NoKey))

\* mark_uploaded (POST /api/v1/mark_uploaded/{pdf_id})
mark_uploaded(pdf_id, head_ok, commit_ok) ==
    LET error == Response("mark_uploaded", NoName, pdf_id, 500,
                          "Error marking PDF as uploaded", NoId, NoKey, NoKey)
    IN
    IF pdf_id \notin DOMAIN pdfs
    THEN Result(St, Response("mark_uploaded", NoName, pdf_id, 404,
                             "PDF not found", NoId, NoKey, NoKey))
    ELSE IF ~HasMember("UPLOADED") THEN Result(St, error)
    ELSE LET file_size == get_file_size(s3, pdfs[pdf_id].s3_key, head_ok)
             row == [pdfs[pdf_id] EXCEPT
                        !.status = "UPLOADED",
                        !.file_size = IF Truthy(file_size) THEN file_size ELSE @]
         IN  IF ~commit_ok THEN Result(St, error)
             ELSE Result([St EXCEPT !.pdfs = [pdfs EXCEPT ![pdf_id] = row]],
                         Response("mark_uploaded", NoName, pdf_id, 200,
                                  "PDF marked as uploaded", pdf_id, NoKey, NoKey))

\* analyze_pdf with the row written although the request failed (no rollback)
analyze_pdf_no_rollback(pdf_id, get_ok, fail_at, commit_ok) ==
    LET error == Response("analyze_pdf", NoName, pdf_id, 500,
                          "Error analyzing PDF", NoId, NoKey, NoKey)
    IN
    IF pdf_id \notin DOMAIN pdfs
    THEN Result(St, Response("analyze_pdf", NoName, pdf_id, 404,
                             "PDF not found", NoId, NoKey, NoKey))
    ELSE IF pdfs[pdf_id].status = "PARSED"
    THEN Result(St, Response("analyze_pdf", NoName, pdf_id, 400,
                             "PDF is already analyzed and parsed", NoId, NoKey, NoKey))
    ELSE IF pdfs[pdf_id].status = "PRE_SIGNED"
    THEN Result(St, Response("analyze_pdf", NoName, pdf_id, 400,
                             "PDF has not been uploaded yet", NoId, NoKey, NoKey))
    ELSE LET a == analyze_and_index_pdf(index, s3, pdf_id, pdfs[pdf_id].filename,
                                        pdfs[pdf_id].s3_key, get_ok, fail_at)
             row == [pdfs[pdf_id] EXCEPT
                        !.status = "PARSED",
                        !.vector_index_id = vector_index_id(pdf_id),
                        !.content_summary = ContentSummary]
             st == [St EXCEPT !.index = a.index, !.pdfs = [pdfs EXCEPT ![pdf_id] = row]]
         IN  IF ~a.ok \/ ~commit_ok
             THEN Result(st, error)
             ELSE Result(st, Response("analyze_pdf", NoName, pdf_id, 200,
                                      "PDF analyzed and indexed successfully",
                                      pdf_id, NoKey, NoKey))

\* analyze_pdf (POST /api/v1/analyze_pdf/{pdf_id})
analyze_pdf(pdf_id, get_ok, fail_at, commit_ok) ==
    LET error == Response("analyze_pdf", NoName, pdf_id, 500,
                          "Error analyzing PDF", NoId, NoKey, NoKey)
    IN
    IF pdf_id \notin DOMAIN pdfs
    THEN Result(St, Response("analyze_pdf", NoName, pdf_id, 404,
                             "PDF not found", NoId, NoKey, NoKey))
    ELSE IF ~HasMember("PARSED") THEN Result(St, error)
    ELSE IF pdfs[pdf_id].status = "PARSED"
    THEN Result(St, Response("analyze_pdf", NoName, pdf_id, 400,
                             "PDF is already analyzed and parsed", NoId, NoKey, NoKey))
    ELSE IF ~HasMember("PRE_SIGNED") THEN Result(St, error)
    ELSE IF pdfs[pdf_id].status = "PRE_SIGNED"
    THEN Result(St, Response("analyze_pdf", NoName, pdf_id, 400,
                             "PDF has not been uploaded yet", NoId, NoKey, NoKey))
    ELSE LET a == analyze_and_index_pdf(index, s3, pdf_id, pdfs[pdf_id].filename,
                                        pdfs[pdf_id].s3_key, get_ok, fail_at)
             row == [pdfs[pdf_id] EXCEPT
                        !.status = "PARSED",
                        !.vector_index_id = a.vector_index_id,
                        !.content_summary = ContentSummary]
         IN  IF ~a.ok \/ ~commit_ok
             THEN Result([St EXCEPT !.index = a.index], error)
             ELSE Result([St EXCEPT !.index = a.index,
                                    !.pdfs = [pdfs EXCEPT ![pdf_id] = row]],
                         Response("analyze_pdf", NoName, pdf_id, 200,
                                  "PDF analyzed and indexed successfully", pdf_id, NoKey, NoKey))

\* delete_pdf without `if pdf.vector_index_id:`: the index cleanup is called
\* with None, whose .replace raises AttributeError
delete_pdf_always_cleanup(pdf_id, s3_ok, search_ok, fail_at, commit_ok) ==
    LET error == Response("delete_pdf", NoName, pdf_id, 500,
                          "Error deleting PDF", NoId, NoKey, NoKey)
    IN
    IF pdf_id \notin DOMAIN pdfs
    THEN Result(St, Response("delete_pdf", NoName, pdf_id, 404,
                             "PDF not found", NoId, NoKey, NoKey))
    ELSE IF ~s3_ok THEN Result(St, error)
    ELSE LET row == pdfs[pdf_id]
             bucket == delete_file(s3, row.s3_key)
             d == IF row.vector_index_id # NoIndexId
                  THEN delete_pdf_from_index(index, row.vector_index_id, search_ok, fail_at)
                  ELSE [ok |-> FALSE, index |-> index]
         IN  IF ~d.ok \/ ~commit_ok
             THEN Result([St EXCEPT !.s3 = bucket, !.index = d.index], error)
             ELSE Result([St EXCEPT !.s3 = bucket, !.index = d.index,
                                    !.pdfs = Without(pdfs, pdf_id)],
                         Response("delete_pdf", NoName, pdf_id, 200,
                                  "PDF deleted successfully", NoId, NoKey, NoKey))

\* delete_pdf with the row deleted and committed before the blob and the
\* index entries are removed
delete_pdf_row_first(pdf_id, s3_ok, search_ok, fail_at, commit_ok) ==
    LET error == Response("delete_pdf", NoName, pdf_id, 500,
                          "Error deleting PDF", NoId, NoKey, NoKey)
    IN
    IF pdf_id \notin DOMAIN pdfs
    THEN Result(St, Response("delete_pdf", NoName, pdf_id, 404,
                             "PDF not found", NoId, NoKey, NoKey))
    ELSE IF ~commit_ok THEN Result(St, error)
    ELSE IF ~s3_ok THEN Result([St EXCEPT !.pdfs = Without(pdfs, pdf_id)], error)
    ELSE LET row == pdfs[pdf_id]
             bucket == delete_file(s3, row.s3_key)
             d == IF row.vector_index_id # NoIndexId
                  THEN delete_pdf_from_index(index, row.vector_index_id, search_ok, fail_at)
                  ELSE [ok |-> TRUE, index |-> index]
             st == [St EXCEPT !.s3 = bucket, !.index = d.index,
                              !.pdfs = Without(pdfs, pdf_id)]
         IN  IF ~d.ok THEN Result(st, error)
             ELSE Result(st, Response("delete_pdf", NoName, pdf_id, 200,
                                      "PDF deleted successfully", NoId, NoKey, NoKey))

\* delete_pdf (DELETE /api/v1/delete_pdf/{pdf_id}).  s3_ok: delete_object
\* succeeds; search_ok, fail_at: as in delete_pdf_from_index.
delete_pdf(pdf_id, s3_ok, search_ok, fail_at, commit_ok) ==
    LET error == Response("delete_pdf", NoName, pdf_id, 500,
                          "Error deleting PDF", NoId, NoKey, NoKey)
    IN
    IF pdf_id \notin DOMAIN pdfs
    THEN Result(St, Response("delete_pdf", NoName, pdf_id, 404,
                             "PDF not found", NoId, NoKey, NoKey))
    ELSE IF ~s3_ok THEN Result(St, error)
    ELSE LET row == pdfs[pdf_id]
             bucket == delete_file(s3, row.s3_key)
             d == IF row.vector_index_id # NoIndexId
                  THEN delete_pdf_from_index(index, row.vector_index_id, search_ok, fail_at)
                  ELSE [ok |-> TRUE, index |-> index]
         IN  IF ~d.ok \/ ~commit_ok
             THEN Result([St EXCEPT !.s3 = bucket, !.index = d.index], error)
             ELSE Result([St EXCEPT !.s3 = bucket, !.index = d.index,
                                    !.pdfs = Without(pdfs, pdf_id)],
                         Response("delete_pdf", NoName, pdf_id, 200,
                                  "PDF deleted successfully", NoId, NoKey, NoKey))

\* ---------------------------------------------------------------- actions
\* the state after a handler returned `out`
Apply(out) ==
    /\ pdfs' = out.st.pdfs
    /\ next_id' = out.st.next_id
    /\ uuid' = out.st.uuid
    /\ urls' = out.st.urls
    /\ s3' = out.st.s3
    /\ index' = out.st.index
    /\ resp' = out.resp

\* the draws of ids and uuids are capped by the bounds
Handle(out) ==
    /\ out.st.uuid <= MaxUuid
    /\ out.st.next_id <= MaxDocs + 1
    /\ Apply(out)
    /\ UNCHANGED aux

\* ids a request may name: every id the table has handed out, and the next
PdfIds == 1..MaxDocs

Init ==
    /\ pdfs = Empty
    /\ next_id = 1
    /\ uuid = 0
    /\ urls = {}
    /\ s3 = Empty
    /\ index = Empty
    /\ resp = Response("start", NoName, NoId, 0, "", NoId, NoKey, NoKey)
    /\ parses = Empty
    /\ calls = Empty
    /\ chat = Empty

\* the client's PUT of an object through a pre-signed URL it was given
PutObject ==
    \E key \in urls, blob \in Blobs :
        /\ s3' = [x \in DOMAIN s3 \cup {key} |-> IF x = key THEN blob ELSE s3[x]]
        /\ urls' = urls \ {key}
        /\ resp' = Response("PUT", NoName, NoId, 200, "", NoId, NoKey, NoKey)
        /\ UNCHANGED <<pdfs, next_id, uuid, index>>
        /\ UNCHANGED aux

\* The collaborators' outcomes of one request.  A handler stops at the first
\* call that raises, so the outcomes after it are not enumerated.
\* <<presign_ok, commit_ok>>
UploadOutcomes == {<<TRUE, TRUE>>, <<FALSE, TRUE>>, <<TRUE, FALSE>>}
\* <<head_ok, commit_ok>>: a failed head_object is tolerated; without the row
\* no collaborator is called
ConfirmOutcomes(pdf_id) ==
    IF pdf_id \in DOMAIN pdfs
    THEN {<<TRUE, TRUE>>, <<FALSE, TRUE>>, <<TRUE, FALSE>>}
    ELSE {<<TRUE, TRUE>>}
\* <<get_ok, fail_at, commit_ok>> for a document of n segments
AnalyzeOutcomes(pdf_id, n) ==
    IF pdf_id \in DOMAIN pdfs
    THEN {<<FALSE, 0, TRUE>>, <<TRUE, n, FALSE>>} \cup {<<TRUE, k, TRUE>> : k \in 0..n}
    ELSE {<<TRUE, 0, TRUE>>}
\* <<s3_ok, search_ok, fail_at, commit_ok>> for a search of h hits
DeleteOutcomes(pdf_id, h) ==
    IF pdf_id \in DOMAIN pdfs
    THEN {<<FALSE, TRUE, 0, TRUE>>, <<TRUE, FALSE, 0, TRUE>>, <<TRUE, TRUE, h, FALSE>>}
            \cup {<<TRUE, TRUE, j, TRUE>> : j \in 0..h}
    ELSE {<<TRUE, TRUE, 0, TRUE>>}

\* the number of segments of the object of row pdf_id (0 without object)
SegmentCount(pdf_id) ==
    IF pdf_id \in DOMAIN pdfs /\ pdfs[pdf_id].s3_key \in DOMAIN s3
    THEN Len(parse_pdf_content(s3[pdfs[pdf_id].s3_key].text))
    ELSE 0

\* the number of hits the search of delete_pdf_from_index has for row pdf_id
HitCount(pdf_id) ==
    IF pdf_id \in DOMAIN pdfs THEN Cardinality(Hits(index, pdf_id)) ELSE 0

UploadPdfDb ==
    \E filename \in Filenames, o \in UploadOutcomes :
        \E existing_pdf \in (IF Matching(filename) = {} THEN {NoId} ELSE Matching(filename)) :
            Handle(pdf_db_upload_pdf(filename, existing_pdf, o[1], o[2]))

ConfirmPdfUpload ==
    \E pdf_id \in PdfIds :
        \E o \in ConfirmOutcomes(pdf_id) :
            Handle(confirm_pdf_upload(pdf_id, o[1], o[2]))

ParsePdf ==
    \E pdf_id \in PdfIds :
        \E o \in AnalyzeOutcomes(pdf_id, SegmentCount(pdf_id)) :
            Handle(parse_pdf(pdf_id, o[1], o[2], o[3]))

UploadPdf ==
    \E filename \in Filenames, o \in UploadOutcomes :
        Handle(pdf_upload_pdf(filename, o[1], o[2]))

MarkUploaded ==
    \E pdf_id \in PdfIds :
        \E o \in ConfirmOutcomes(pdf_id) :
            Handle(mark_uploaded(pdf_id, o[1], o[2]))

AnalyzePdf ==
    \E pdf_id \in PdfIds :
        \E o \in AnalyzeOutcomes(pdf_id, SegmentCount(pdf_id)) :
            Handle(analyze_pdf(pdf_id, o[1], o[2], o[3]))

DeletePdf ==
    \E pdf_id \in PdfIds :
        \E o \in DeleteOutcomes(pdf_id, HitCount(pdf_id)) :
            Handle(delete_pdf(pdf_id, o[1], o[2], o[3], o[4]))

\* the ingestion calls of both routers and the client's upload
Ingest ==
    \/ PutObject
    \/ UploadPdfDb
    \/ ConfirmPdfUpload
    \/ ParsePdf
    \/ UploadPdf
    \/ MarkUploaded
    \/ AnalyzePdf

Next == Ingest \/ DeletePdf

Spec == Init /\ [][Next]_vars

\* no delete: only the ingestion calls
SpecIngest == Init /\ [][Ingest]_vars

\* analyze_pdf, with the calls answered 200 counted per document
AnalyzePdfCounted ==
    \E pdf_id \in PdfIds :
        \E o \in AnalyzeOutcomes(pdf_id, SegmentCount(pdf_id)) :
            LET out == analyze_pdf(pdf_id, o[1], o[2], o[3])
                n == IF pdf_id \in DOMAIN parses THEN parses[pdf_id] ELSE 0
            IN  /\ Apply(out)
                /\ parses' = IF out.resp.code = 200
                              THEN [x \in DOMAIN parses \cup {pdf_id} |->
                                       IF x = pdf_id THEN n + 1 ELSE parses[x]]
                              ELSE parses
                /\ n + 1 <= MaxParses
                /\ UNCHANGED <<calls, chat>>

\* repeated parsing: mark_uploaded sets UPLOADED whatever the status is, so it
\* also puts a PARSED document back to UPLOADED
Reparse ==
    \/ UploadPdf
    \/ PutObject
    \/ MarkUploaded
    \/ AnalyzePdfCounted

SpecReparse == Init /\ [][Reparse]_vars

\* ---------------------------------------------------------------- startup
\* what OpenSearch may do with the calls of _create_index_if_not_exists
SchemaOutcomes == {"created", "exists_fails", "delete_fails", "create_fails"}

\* create the index only when it does not exist: the entries are kept
_create_index_if_absent(ix, outcome) == ix

\* OpenSearchService._create_index_if_not_exists, run by the constructor:
\* indices.exists, indices.delete when it exists, indices.create.  Every
\* exception is printed and swallowed: when exists or delete raises the index
\* is left as it is, when create raises the index is gone.
_create_index_if_not_exists(ix, outcome) ==
    IF outcome \in {"exists_fails", "delete_fails"} THEN ix ELSE Empty

\* a start of the process: the module-level OpenSearchService() of the
\* routers; the table and the bucket are not touched, requests in flight are
\* lost with the old process
Startup ==
    \E outcome \in SchemaOutcomes :
        /\ index' = _create_index_if_not_exists(index, outcome)
        /\ resp' = Response("startup", NoName, NoId, 0, outcome, NoId, NoKey, NoKey)
        /\ calls' = Empty
        /\ UNCHANGED <<pdfs, next_id, uuid, urls, s3, parses, chat>>

\* ingestion through the /api/v1 router, with restarts
Restarting ==
    \/ UploadPdf
    \/ PutObject
    \/ MarkUploaded
    \/ AnalyzePdf
    \/ Startup

SpecRestart == Init /\ [][Restarting]_vars

\* ------------------------------------------------- upload requests alone
\* request-upload calls of both routers, for any filename any number of times
UploadPdfDbMany ==
    \E filename \in Filenames, o \in UploadOutcomes :
        \E existing_pdf \in (IF Matching(filename) = {} THEN {NoId} ELSE Matching(filename)) :
            LET out == pdf_db_upload_pdf(filename, existing_pdf, o[1], o[2]) IN
            /\ out.st.next_id <= MaxUploads + 1
            /\ Apply(out)
            /\ UNCHANGED aux

UploadPdfMany ==
    \E filename \in Filenames, o \in UploadOutcomes :
        LET out == pdf_upload_pdf(filename, o[1], o[2]) IN
        /\ out.st.next_id <= MaxUploads + 1
        /\ Apply(out)
        /\ UNCHANGED aux

Uploads ==
    \/ UploadPdfDbMany
    \/ UploadPdfMany

SpecUploads == Init /\ [][Uploads]_vars

\* -------------------------------------------- parse requests in parallel
\* A parse request handled statement by statement, so that the requests of
\* several workers interleave at the calls to the database, S3 and the index.
\* route is "parse-pdf" (pdf_db.parse_pdf) or "analyze_pdf" (pdf.analyze_pdf);
\* the two differ in the members of PDFStatus they name.
Workers == 1..MaxWorkers
Routes == {"parse-pdf", "analyze_pdf"}
LastMember(route) == IF route = "parse-pdf" THEN "INDEXED" ELSE "PARSED"
FirstMember(route) == IF route = "parse-pdf" THEN "PENDING" ELSE "PRE_SIGNED"

Frame(route, pdf_id, pc, row, texts, i, code) ==
    [route |-> route, pdf_id |-> pdf_id, pc |-> pc, row |-> row,
     texts |-> texts, i |-> i, code |-> code]

\* a document whose upload through the /api/v1 router is complete:
\* upload_pdf, the client's PUT of blob, mark_uploaded
Uploaded(filename, blob) ==
    LET key == unique_key(1, filename) IN
    /\ pdfs = (1 :> [PDF(filename, key, "UPLOADED") EXCEPT
                        !.file_size = IF Truthy(blob.size) THEN blob.size ELSE @])
    /\ next_id = 2
    /\ uuid = 1
    /\ urls = {}
    /\ s3 = (key :> blob)
    /\ index = Empty
    /\ resp = Response("mark_uploaded", NoName, 1, 200, "PDF marked as uploaded",
                       1, NoKey, NoKey)

InitRace ==
    /\ \E filename \in Filenames, blob \in Blobs : Uploaded(filename, blob)
    /\ parses = Empty
    /\ calls = Empty
    /\ chat = Empty

Returned(w, code) ==
    /\ calls' = [calls EXCEPT ![w].pc = "done", ![w].code = code]
    /\ resp' = Response(calls[w].route, NoName, calls[w].pdf_id, code, "",
                        NoId, NoKey, NoKey)

\* the query for the row and the status checks (pdf_db.py 119-139,
\* pdf.py 163-181)
Begin ==
    \E w \in Workers \ DOMAIN calls, route \in Routes, pdf_id \in DOMAIN pdfs :
        LET f(pc, code) == Frame(route, pdf_id, pc, pdfs[pdf_id], <<>>, 0, code)
            start(pc, code) == [x \in DOMAIN calls \cup {w} |->
                                   IF x = w THEN f(pc, code) ELSE calls[x]]
        IN
        /\ calls' = IF ~HasMember(LastMember(route)) THEN start("done", 500)
                    ELSE IF pdfs[pdf_id].status = LastMember(route) THEN start("done", 400)
                    ELSE IF ~HasMember(FirstMember(route)) THEN start("done", 500)
                    ELSE IF pdfs[pdf_id].status = FirstMember(route) THEN start("done", 400)
                    ELSE start("download", 0)
        /\ resp' = IF calls'[w].pc = "done"
                   THEN Response(route, NoName, pdf_id, calls'[w].code, "",
                                 NoId, NoKey, NoKey)
                   ELSE resp
        /\ UNCHANGED <<pdfs, next_id, uuid, urls, s3, index, parses, chat>>

\* download_pdf_from_s3 and parse_pdf_content (opensearch_service.py 130-133)
Download ==
    \E w \in DOMAIN calls :
        /\ calls[w].pc = "download"
        /\ LET key == calls[w].row.s3_key IN
           IF key \in DOMAIN s3 /\ s3[key].readable
           THEN /\ calls' = [calls EXCEPT ![w].pc = "upsert",
                                          ![w].texts = parse_pdf_content(s3[key].text)]
                /\ UNCHANGED resp
           ELSE Returned(w, 500)
        /\ UNCHANGED <<pdfs, next_id, uuid, urls, s3, index, parses, chat>>

\* one round of the loop of analyze_and_index_pdf (lines 139-151)
UpsertSegment ==
    \E w \in DOMAIN calls :
        /\ calls[w].pc = "upsert"
        /\ LET c == calls[w] IN
           IF c.i < Len(c.texts)
           THEN /\ index' = Upsert(index, segment_id(c.pdf_id, c.i),
                                   doc(c.pdf_id, c.row.filename, c.i, c.texts[c.i + 1]))
                /\ calls' = [calls EXCEPT ![w].i = c.i + 1]
           ELSE /\ calls' = [calls EXCEPT ![w].pc = "commit"]
                /\ UNCHANGED index
        /\ UNCHANGED <<pdfs, next_id, uuid, urls, s3, resp, parses, chat>>

\* the assignments to the row and db.commit() (pdf_db.py 149-153,
\* pdf.py 191-195): an UPDATE of the three columns of the row
CommitParsed ==
    \E w \in DOMAIN calls :
        /\ calls[w].pc = "commit"
        /\ LET c == calls[w] IN
           IF c.pdf_id \in DOMAIN pdfs /\ HasMember(LastMember(c.route))
           THEN /\ pdfs' = [pdfs EXCEPT ![c.pdf_id] =
                               [@ EXCEPT !.status = LastMember(c.route),
                                         !.vector_index_id = vector_index_id(c.pdf_id),
                                         !.content_summary = ContentSummary]]
                /\ Returned(w, 200)
           ELSE /\ UNCHANGED pdfs
                /\ Returned(w, 500)
        /\ UNCHANGED <<next_id, uuid, urls, s3, index, parses, chat>>

Race ==
    \/ Begin
    \/ Download
    \/ UpsertSegment
    \/ CommitParsed

SpecRace == InitRace /\ [][Race]_vars

\* ------------------------------------------------------------------ chat
\* A Python call either returns a value or raises.
Return(v) == [raised |-> FALSE, value |-> v]
Raise == [raised |-> TRUE, value |-> <<>>]

\* queries of a chat request
Queries == { <<"a">>, <<"b">>, <<"a", " ", "c">> }

\* the k of the knn query: max_results=3 in _search_knowledge_base
MaxResults == 3

\* _score of an entry for a query: stands for the cosine similarity of the
\* two embeddings, which only the model fixes; here the number of characters
\* the texts share
Score(query, text) == Cardinality(Range(query) \cap Range(text))

\* The hit lists a knn query with k may be answered with (lucene engine, one
\* shard, no size in the body so at most 10 >= k hits are returned): the k
\* best entries by descending _score, entries of equal score in any order.
KnnHits(ix, query, k) ==
    LET n == IF Cardinality(DOMAIN ix) < k THEN Cardinality(DOMAIN ix) ELSE k
        sc(id) == Score(query, ix[id].text)
    IN  {h \in [1..n -> DOMAIN ix] :
            /\ \A i, j \in 1..n : i < j => h[i] # h[j] /\ sc(h[i]) >= sc(h[j])
            /\ \A id \in DOMAIN ix \ Range(h) : \A i \in 1..n : sc(id) <= sc(h[i])}

\* search_similar_content with `except Exception` re-raising, as
\* search_similar_pdfs does
search_similar_content_reraise(ix, query, max_results, search_ok, hits) ==
    IF ~search_ok THEN Raise
    ELSE Return([i \in DOMAIN hits |->
                    [content |-> ix[hits[i]].text, filename |-> ix[hits[i]].filename,
                     pdf_id |-> ix[hits[i]].pdf_id, score |-> Score(query, ix[hits[i]].text)]])

\* OpenSearchService.search_similar_content.  search_ok: encode and
\* client.search succeed; hits: the hit list of the answer.
search_similar_content(ix, query, max_results, search_ok, hits) ==
    IF ~search_ok THEN Return(<<>>)
    ELSE Return([i \in DOMAIN hits |->
                    [content |-> ix[hits[i]].text, filename |-> ix[hits[i]].filename,
                     pdf_id |-> ix[hits[i]].pdf_id, score |-> Score(query, ix[hits[i]].text)]])

\* "\n\n".join(parts)
RECURSIVE join(_)
join(parts) ==
    IF parts = <<>> THEN <<>>
    ELSE IF Len(parts) = 1 THEN parts[1]
    ELSE parts[1] \o <<"\n", "\n">> \o join(Tail(parts))

\* Python None for the context
NoContext == <<"None">>

\* _search_knowledge_base with the sources collected in reverse
_search_knowledge_base_reversed(ix, query, search_ok, hits) ==
    LET r == search_similar_content(ix, query, MaxResults, search_ok, hits)
        n == Len(r.value)
    IN
    IF r.raised \/ r.value = <<>>
    THEN Return([context |-> NoContext, sources |-> <<>>])
    ELSE Return([context |-> join([i \in DOMAIN r.value |-> r.value[i].content]),
                 sources |-> [i \in DOMAIN r.value |-> r.value[n + 1 - i].filename]])

\* ChatService._search_knowledge_base: (context, sources)
_search_knowledge_base(ix, query, search_ok, hits) ==
    LET r == search_similar_content(ix, query, MaxResults, search_ok, hits) IN
    IF r.raised \/ r.value = <<>>
    THEN Return([context |-> NoContext, sources |-> <<>>])
    ELSE Return([context |-> join([i \in DOMAIN r.value |-> r.value[i].content]),
                 sources |-> [i \in DOMAIN r.value |-> r.value[i].filename]])

\* ChatService._format_prompt: `if context:` is false for None and for ""
SystemWithContext == "You are a helpful AI assistant. Use the following context to answer the user's question."
SystemPlain == "You are a helpful AI assistant. Answer the user's question to the best of your ability."
AssistantHeader == "<|start_header_id|>assistant<|end_header_id|>"

\* _format_prompt without `if context:`
_format_prompt_always_context(query, context) ==
    <<SystemWithContext, "Context:">> \o context \o <<"<|eot_id|>">> \o query
        \o <<AssistantHeader>>

_format_prompt(query, context) ==
    IF context # NoContext /\ context # <<>>
    THEN <<SystemWithContext, "Context:">> \o context \o <<"<|eot_id|>">> \o query
             \o <<AssistantHeader>>
    ELSE <<SystemPlain, "<|eot_id|>">> \o query \o <<AssistantHeader>>

\* what the generation endpoint may do with a request
GenOutcomes == {"text", "text_after_header", "not_json", "status_500",
                "timeout", "connection_error"}

ApologyStatus == "I apologize, but there was an error communicating with the language model. Please try again."
ApologyTimeout == "I apologize, but the request timed out. Please try again."
ApologyConnection == "I apologize, but I cannot connect to the language model service. Please check if the Ollama service is running."
ApologyOther == "I apologize, but there was an error generating the response. Please try again."
Apologies == {ApologyStatus, ApologyTimeout, ApologyConnection, ApologyOther}

\* generated_text.split(AssistantHeader)[-1]
RECURSIVE after_last(_, _)
after_last(text, token) ==
    IF token \notin Range(text) THEN text ELSE after_last(Tail(text), token)

\* what _generate_response returns after `posts` calls of requests.post
Posted(posts, r) == [raised |-> r.raised, value |-> r.value, posts |-> posts]

\* _generate_response posting once more after a request that failed (timeout,
\* no connection, a status other than 200, a body that is not JSON), the
\* second request being answered
_generate_response_retry(prompt, gen) ==
    IF gen \in {"text", "text_after_header"}
    THEN Posted(1, Return(IF gen = "text" THEN <<"h", "i">>
                          ELSE strip(after_last(<<"x", AssistantHeader, " ", "h", "i", "\n">>,
                                                AssistantHeader))))
    ELSE Posted(2, Return(<<"h", "i">>))

\* _generate_response with `except requests.exceptions.Timeout` only
_generate_response_timeout_only(prompt, gen) ==
    Posted(1,
        CASE gen = "text" -> Return(<<"h", "i">>)
          [] gen = "text_after_header" ->
                Return(strip(after_last(<<"x", AssistantHeader, " ", "h", "i", "\n">>,
                                        AssistantHeader)))
          [] gen = "status_500" -> Return(<<ApologyStatus>>)
          [] gen = "timeout" -> Return(<<ApologyTimeout>>)
          [] gen = "connection_error" -> Raise
          [] gen = "not_json" -> Raise)

\* ChatService._generate_response
_generate_response(prompt, gen) ==
    Posted(1,
        CASE gen = "text" -> Return(<<"h", "i">>)
          [] gen = "text_after_header" ->
                Return(strip(after_last(<<"x", AssistantHeader, " ", "h", "i", "\n">>,
                                        AssistantHeader)))
          [] gen = "status_500" -> Return(<<ApologyStatus>>)
          [] gen = "timeout" -> Return(<<ApologyTimeout>>)
          [] gen = "connection_error" -> Return(<<ApologyConnection>>)
          [] gen = "not_json" -> Return(<<ApologyOther>>))

\* what chat has from the knowledge base after `searches` queries of the index
Searched(searches, r) == [raised |-> r.raised, value |-> r.value, searches |-> searches]

\* ChatService.chat without `if use_knowledge:`: the knowledge base is always
\* searched
chat_service_chat_always_search(ix, query, use_knowledge, search_ok, hits, gen) ==
    LET kb == Searched(1, _search_knowledge_base(ix, query, search_ok, hits))
        prompt == _format_prompt(query, kb.value.context)
        g == _generate_response(prompt, gen)
        base == [query |-> query, use_knowledge |-> use_knowledge,
                 search_ok |-> search_ok, hits |-> hits, gen |-> gen]
    IN  IF kb.raised
        THEN base @@ [raised |-> TRUE, generated |-> FALSE, prompt |-> <<>>,
                      response |-> <<>>, sources |-> <<>>, posts |-> 0,
                      searches |-> kb.searches]
        ELSE IF g.raised
        THEN base @@ [raised |-> TRUE, generated |-> TRUE, prompt |-> prompt,
                      response |-> <<>>, sources |-> <<>>, posts |-> g.posts,
                      searches |-> kb.searches]
        ELSE base @@ [raised |-> FALSE, generated |-> TRUE, prompt |-> prompt,
                      response |-> g.value, sources |-> kb.value.sources,
                      posts |-> g.posts, searches |-> kb.searches]

\* ChatService.chat: the value returned, with what the call did on the way.
\* search_ok and hits are what the index answers if it is queried.
chat_service_chat(ix, query, use_knowledge, search_ok, hits, gen) ==
    LET kb == IF use_knowledge
              THEN Searched(1, _search_knowledge_base(ix, query, search_ok, hits))
              ELSE Searched(0, Return([context |-> NoContext, sources |-> <<>>]))
        prompt == _format_prompt(query, kb.value.context)
        g == _generate_response(prompt, gen)
        base == [query |-> query, use_knowledge |-> use_knowledge,
                 search_ok |-> search_ok, hits |-> hits, gen |-> gen]
    IN  IF kb.raised
        THEN base @@ [raised |-> TRUE, generated |-> FALSE, prompt |-> <<>>,
                      response |-> <<>>, sources |-> <<>>, posts |-> 0,
                      searches |-> kb.searches]
        ELSE IF g.raised
        THEN base @@ [raised |-> TRUE, generated |-> TRUE, prompt |-> prompt,
                      response |-> <<>>, sources |-> <<>>, posts |-> g.posts,
                      searches |-> kb.searches]
        ELSE base @@ [raised |-> FALSE, generated |-> TRUE, prompt |-> prompt,
                      response |-> g.value, sources |-> kb.value.sources,
                      posts |-> g.posts, searches |-> kb.searches]

\* sources=None of ChatResponse
NoSources == <<"None">>

\* chat_with_pdfs (POST /chat): the result of ChatService.chat with the status
\* code and the sources field of the ChatResponse
chat_with_pdfs(ix, query, use_knowledge, search_ok, hits, gen) ==
    LET c == chat_service_chat(ix, query, use_knowledge, search_ok, hits, gen) IN
    c @@ [code |-> IF c.raised THEN 500 ELSE 200,
          body_sources |-> IF c.raised \/ ~use_knowledge THEN NoSources ELSE c.sources]

\* the index after the first `upto` segments of document 1 and of document 2
\* were indexed (both hold the object TwoSentences)
ChatIndex(upto1, upto2) ==
    LET texts == parse_pdf_content(TwoSentences.text) IN
    IndexSegments(IndexSegments(Empty, 1, <<"A", ".", "p", "d", "f">>, texts, upto1),
                  2, <<"n", "o", "t", "e", "s">>, texts, upto2)

\* chat reads nothing but the index
InitChat ==
    /\ \E upto1, upto2 \in 0..2 : index = ChatIndex(upto1, upto2)
    /\ pdfs = Empty
    /\ next_id = 1
    /\ uuid = 0
    /\ urls = {}
    /\ s3 = Empty
    /\ resp = Response("start", NoName, NoId, 0, "", NoId, NoKey, NoKey)
    /\ parses = Empty
    /\ calls = Empty
    /\ chat = Empty

\* POST /chat.  A failed search has no hit list.
Chat ==
    \E query \in Queries, use_knowledge \in BOOLEAN, gen \in GenOutcomes :
        \E search_ok \in BOOLEAN :
            \E hits \in (IF search_ok THEN KnnHits(index, query, MaxResults) ELSE {<<>>}) :
                /\ chat' = chat_with_pdfs(index, query, use_knowledge, search_ok, hits, gen)
                /\ UNCHANGED <<pdfs, next_id, uuid, urls, s3, index, resp, parses, calls>>

SpecChat == InitChat /\ [][Chat]_vars

\* list_pdfs (GET /api/v1/list_pdf): the rows skip+1..skip+limit of the table
\* db, here in the order of the id (the query has no ORDER BY), each with the
\* id and the status of PDFMetadata
DefaultSkip == 0
DefaultLimit == 100
list_pdfs(db, skip, limit) ==
    LET listed == {id \in DOMAIN db :
                      /\ Cardinality({other \in DOMAIN db : other < id}) >= skip
                      /\ Cardinality({other \in DOMAIN db : other < id}) < skip + limit}
    IN  {[id |-> id, status |-> db[id].status] : id \in listed}

\* the /api/v1 router with every collaborator succeeding: S3 signs, returns
\* and deletes the object, OpenSearch indexes, searches and deletes, the
\* database commits; head_object may report no size, which mark_uploaded
\* tolerates.  The analyses answered 200 are counted.
UploadPdfOk ==
    \E filename \in Filenames : Handle(pdf_upload_pdf(filename, TRUE, TRUE))

MarkUploadedOk ==
    \E pdf_id \in PdfIds, head_ok \in BOOLEAN :
        Handle(mark_uploaded(pdf_id, head_ok, TRUE))

AnalyzePdfOk ==
    \E pdf_id \in PdfIds :
        LET out == analyze_pdf(pdf_id, TRUE, SegmentCount(pdf_id), TRUE)
            n == IF pdf_id \in DOMAIN parses THEN parses[pdf_id] ELSE 0
        IN  /\ Apply(out)
            /\ parses' = IF out.resp.code = 200
                          THEN [x \in DOMAIN parses \cup {pdf_id} |->
                                   IF x = pdf_id THEN n + 1 ELSE parses[x]]
                          ELSE parses
            /\ n + 1 <= MaxParses
            /\ UNCHANGED <<calls, chat>>

DeletePdfOk ==
    \E pdf_id \in PdfIds :
        Handle(delete_pdf(pdf_id, TRUE, TRUE, HitCount(pdf_id), TRUE))

Legacy ==
    \/ UploadPdfOk
    \/ PutObject
    \/ MarkUploadedOk
    \/ AnalyzePdfOk
    \/ DeletePdfOk

SpecLegacy == Init /\ [][Legacy]_vars

\* ------------------------------------------------- segmenting drawn texts
\* the characters of the texts PyMuPDF extracts
Alphabet == {"a", "b", ".", " "}

\* the extracted texts of up to MaxLen characters
Texts == UNION {[1..n -> Alphabet] : n \in 0..MaxLen}

\* a PDF PyMuPDF opens and extracts text from
Readable(text) == [size |-> Len(text) + 1, readable |-> TRUE, text |-> text]

\* one document uploaded through the /api/v1 router, with any such PDF
InitSegment ==
    /\ \E text \in Texts : Uploaded(<<"A", ".", "p", "d", "f">>, Readable(text))
    /\ parses = Empty
    /\ calls = Empty
    /\ chat = Empty

Segmenting ==
    \/ MarkUploaded
    \/ AnalyzePdf

SpecSegment == InitSegment /\ [][Segmenting]_vars

\* -------------------------------------------- cleaning up long documents
\* the text of n sentences
RECURSIVE Sentences(_)
Sentences(n) == IF n = 0 THEN <<>> ELSE Sentences(n - 1) \o <<"a", ".">>

\* document pdf_id after upload_pdf, the PUT of blob, mark_uploaded and a
\* successful analyze_pdf
Parsed(pdf_id, filename, blob) ==
    [PDF(filename, unique_key(pdf_id, filename), "PARSED") EXCEPT
        !.file_size = blob.size,
        !.vector_index_id = vector_index_id(pdf_id),
        !.content_summary = ContentSummary]

\* two parsed documents of up to MaxSentences sentences each
InitCleanup ==
    /\ \E n1 \in 0..MaxSentences, n2 \in 0..MaxSentences :
          LET f1 == <<"A", ".", "p", "d", "f">>
              f2 == <<"n", "o", "t", "e", "s">>
              one == Readable(Sentences(n1))
              two == Readable(Sentences(n2))
          IN  /\ pdfs = (1 :> Parsed(1, f1, one)) @@ (2 :> Parsed(2, f2, two))
              /\ s3 = (unique_key(1, f1) :> one) @@ (unique_key(2, f2) :> two)
              /\ index = IndexSegments(
                             IndexSegments(Empty, 1, f1, parse_pdf_content(one.text), n1),
                             2, f2, parse_pdf_content(two.text), n2)
    /\ next_id = 3
    /\ uuid = 2
    /\ urls = {}
    /\ resp = Response("analyze_pdf", NoName, 2, 200,
                       "PDF analyzed and indexed successfully", 2, NoKey, NoKey)
    /\ parses = Empty
    /\ calls = Empty
    /\ chat = Empty

\* delete_pdf on any id the table has handed out
DeletePdfAny ==
    \E pdf_id \in 1..(next_id - 1) :
        \E o \in DeleteOutcomes(pdf_id, HitCount(pdf_id)) :
            Apply(delete_pdf(pdf_id, o[1], o[2], o[3], o[4])) /\ UNCHANGED aux

SpecCleanup == InitCleanup /\ [][DeletePdfAny]_vars

\* ------------------------------------------------- parsing two documents
\* two documents uploaded through the /api/v1 router, each with any object
InitTwoUploaded ==
    /\ \E one \in Blobs, two \in Blobs :
          LET f1 == <<"A", ".", "p", "d", "f">>
              f2 == <<"n", "o", "t", "e", "s">>
              row(pdf_id, filename, blob) ==
                  [PDF(filename, unique_key(pdf_id, filename), "UPLOADED") EXCEPT
                      !.file_size = IF Truthy(blob.size) THEN blob.size ELSE @]
          IN  /\ pdfs = (1 :> row(1, f1, one)) @@ (2 :> row(2, f2, two))
              /\ s3 = (unique_key(1, f1) :> one) @@ (unique_key(2, f2) :> two)
    /\ next_id = 3
    /\ uuid = 2
    /\ urls = {}
    /\ index = Empty
    /\ resp = Response("mark_uploaded", NoName, 2, 200, "PDF marked as uploaded",
                       2, NoKey, NoKey)
    /\ parses = Empty
    /\ calls = Empty
    /\ chat = Empty

\* the requests on any id the table has handed out
MarkUploadedAny ==
    \E pdf_id \in 1..(next_id - 1) :
        \E o \in ConfirmOutcomes(pdf_id) :
            Apply(mark_uploaded(pdf_id, o[1], o[2])) /\ UNCHANGED aux

ParsePdfAny ==
    \E pdf_id \in 1..(next_id - 1) :
        \E o \in AnalyzeOutcomes(pdf_id, SegmentCount(pdf_id)) :
            Apply(parse_pdf(pdf_id, o[1], o[2], o[3])) /\ UNCHANGED aux

AnalyzePdfAny ==
    \E pdf_id \in 1..(next_id - 1) :
        \E o \in AnalyzeOutcomes(pdf_id, SegmentCount(pdf_id)) :
            Apply(analyze_pdf(pdf_id, o[1], o[2], o[3])) /\ UNCHANGED aux

ParsingTwo ==
    \/ MarkUploadedAny
    \/ ParsePdfAny
    \/ AnalyzePdfAny

SpecTwo == InitTwoUploaded /\ [][ParsingTwo]_vars

\* ------------------------------------------- concurrent upload requests
\* a request of POST /upload-pdf in flight: the filename, the place in the
\* handler, what .first() returned, the key generate_presigned_url drew,
\* whether a collaborator (S3, the database) failed, and the status code, id
\* and key of the response
UploadFrame(filename, pc, existing_pdf, key, code, ret_id, ret_key) ==
    [route |-> "upload-pdf", filename |-> filename, pc |-> pc,
     existing_pdf |-> existing_pdf, key |-> key, failed |-> FALSE, code |-> code,
     ret_id |-> ret_id, ret_key |-> ret_key]

\* the table is empty, or holds one row the /api/v1 router created
InitUploadRace ==
    /\ \/ /\ pdfs = Empty
          /\ next_id = 1
          /\ uuid = 0
          /\ urls = {}
       \/ \E filename \in Filenames :
             /\ pdfs = (1 :> PDF(filename, unique_key(1, filename), "PRE_SIGNED"))
             /\ next_id = 2
             /\ uuid = 1
             /\ urls = {unique_key(1, filename)}
    /\ s3 = Empty
    /\ index = Empty
    /\ resp = Response("start", NoName, NoId, 0, "", NoId, NoKey, NoKey)
    /\ parses = Empty
    /\ calls = Empty
    /\ chat = Empty

\* the response of worker w
Answered(w, failed, code, ret_id, ret_key, url_key) ==
    /\ calls' = [calls EXCEPT ![w].pc = "done", ![w].failed = failed, ![w].code = code,
                              ![w].ret_id = ret_id, ![w].ret_key = ret_key]
    /\ resp' = Response("upload-pdf", calls[w].filename, NoId, code, "",
                        ret_id, ret_key, url_key)

\* db.query(PDF).filter(PDF.filename == request.filename).first()
\* (pdf_db.py 29)
LookUp ==
    \E w \in Workers \ DOMAIN calls, filename \in Filenames :
        \E existing_pdf \in (IF Matching(filename) = {} THEN {NoId} ELSE Matching(filename)) :
            /\ calls' = [x \in DOMAIN calls \cup {w} |->
                            IF x = w
                            THEN UploadFrame(filename, "looked_up", existing_pdf,
                                             NoKey, 0, NoId, NoKey)
                            ELSE calls[x]]
            /\ UNCHANGED <<pdfs, next_id, uuid, urls, s3, index, resp, parses, chat>>

\* the branch of an existing row (pdf_db.py 31-44): the comparison with
\* PDFStatus.PENDING, the new URL for a pending row, the 400 otherwise, which
\* `except Exception` turns into a 500
Reissue ==
    \E w \in DOMAIN calls, presign_ok \in BOOLEAN :
        LET c == calls[w]
            key == unique_key(uuid + 1, c.filename)
        IN
        /\ c.pc = "looked_up"
        /\ c.existing_pdf # NoId
        /\ IF HasMember("PENDING") /\ c.existing_pdf \in DOMAIN pdfs
              /\ pdfs[c.existing_pdf].status = "PENDING" /\ presign_ok
           THEN /\ uuid' = uuid + 1
                /\ urls' = urls \cup {key}
                /\ Answered(w, FALSE, 200, c.existing_pdf, pdfs[c.existing_pdf].s3_key, key)
           ELSE /\ UNCHANGED <<uuid, urls>>
                /\ Answered(w, ~presign_ok, 500, NoId, NoKey, NoKey)
        /\ UNCHANGED <<pdfs, next_id, s3, index, parses, chat>>

\* generate_presigned_url for a new row (pdf_db.py 47); every key drawn is
\* counted in uuid here, so that two requests in flight hold different keys
Presign ==
    \E w \in DOMAIN calls, presign_ok \in BOOLEAN :
        LET c == calls[w] IN
        /\ c.pc = "looked_up"
        /\ c.existing_pdf = NoId
        /\ IF presign_ok
           THEN /\ uuid' = uuid + 1
                /\ calls' = [calls EXCEPT ![w].pc = "signed",
                                          ![w].key = unique_key(uuid + 1, c.filename)]
                /\ UNCHANGED resp
           ELSE /\ UNCHANGED uuid
                /\ Answered(w, TRUE, 500, NoId, NoKey, NoKey)
        /\ UNCHANGED <<pdfs, next_id, urls, s3, index, parses, chat>>

\* PDF(..., status=PDFStatus.PENDING), db.add, db.commit, db.refresh and the
\* response (pdf_db.py 50-64); filename has no unique constraint
\* (models.py 14), s3_key has one
CreateRecord ==
    \E w \in DOMAIN calls, commit_ok \in BOOLEAN :
        LET c == calls[w] IN
        /\ c.pc = "signed"
        /\ IF HasMember("PENDING") /\ commit_ok
              /\ \A id \in DOMAIN pdfs : pdfs[id].s3_key # c.key
           THEN /\ pdfs' = pdfs @@ (next_id :> PDF(c.filename, c.key, "PENDING"))
                /\ next_id' = next_id + 1
                /\ urls' = urls \cup {c.key}
                /\ Answered(w, FALSE, 200, next_id, c.key, c.key)
           ELSE /\ UNCHANGED <<pdfs, next_id, urls>>
                /\ Answered(w, ~commit_ok, 500, NoId, NoKey, NoKey)
        /\ UNCHANGED <<uuid, s3, index, parses, chat>>

UploadRace ==
    \/ LookUp
    \/ Reissue
    \/ Presign
    \/ CreateRecord

SpecUploadRace == InitUploadRace /\ [][UploadRace]_vars

\* ------------------------------------------------------------- properties
\* The lifecycle stage of a stored status.  The specification names the
\* stages PENDING, UPLOADED, INDEXED; models.PDFStatus names the first
\* PRE_SIGNED and the last PARSED.
Stage(status) ==
    CASE status \in {"PENDING", "PRE_SIGNED"} -> 1
      [] status = "UPLOADED" -> 2
      [] status \in {"INDEXED", "PARSED"} -> 3

PdfDbOps == {"upload-pdf", "upload-pdf-confirm", "parse-pdf"}
ParseOps == {"parse-pdf", "analyze_pdf"}

\* C1: a request-upload, confirm-upload or parse call of the pdf_db router,
\* successful or failing, leaves every document's status as it was or moves
\* it one stage forward (PENDING to UPLOADED, UPLOADED to INDEXED): never
\* backward, never past UPLOADED, and it removes no document.
C1_ForwardOnly ==
    [][ resp'.op \in PdfDbOps =>
          \A id \in DOMAIN pdfs :
              /\ id \in DOMAIN pdfs'
              /\ \/ pdfs'[id].status = pdfs[id].status
                 \/ /\ Stage(pdfs'[id].status) = Stage(pdfs[id].status) + 1
                    /\ pdfs'[id].status \in {"UPLOADED", "INDEXED"} ]_vars

\* a confirm-upload call of the pdf_db router was just answered for a document
\* in the last stage, which is still in the last stage
C1_Witness ==
    /\ resp.op = "upload-pdf-confirm"
    /\ resp.pdf_id \in DOMAIN pdfs
    /\ Stage(pdfs[resp.pdf_id].status) = 3

\* C2: without delete and restart, a document in the last stage (INDEXED,
\* stored as PARSED) has an index entry {id}_{i} of its own for every segment
\* i in 0..n-1 of its object, holding that segment's text.
C2_IndexedHasAllEntries ==
    \A id \in DOMAIN pdfs :
        Stage(pdfs[id].status) = 3 =>
            /\ pdfs[id].s3_key \in DOMAIN s3
            /\ LET texts == parse_pdf_content(s3[pdfs[id].s3_key].text) IN
               \A i \in 0..(Len(texts) - 1) :
                   /\ segment_id(id, i) \in DOMAIN index
                   /\ index[segment_id(id, i)].pdf_id = id
                   /\ index[segment_id(id, i)].text = texts[i + 1]

\* a document of two segments in the last stage, with both entries indexed
C2_Witness ==
    \E id \in DOMAIN pdfs :
        /\ Stage(pdfs[id].status) = 3
        /\ SegmentCount(id) = 2
        /\ {segment_id(id, 0), segment_id(id, 1)} \subseteq DOMAIN index

\* C3: after a parse call on an existing document, either the call succeeded
\* and the document is in the last stage with index reference pdf_{id} and the
\* fixed summary, or it failed and status, index reference and summary are
\* what they were before the call.
C3_ParseAllOrNothing ==
    [][ (resp'.op \in ParseOps /\ resp'.pdf_id \in DOMAIN pdfs) =>
          LET id == resp'.pdf_id IN
          /\ id \in DOMAIN pdfs'
          /\ \/ /\ resp'.code = 200
                /\ Stage(pdfs'[id].status) = 3
                /\ pdfs'[id].vector_index_id = vector_index_id(id)
                /\ pdfs'[id].content_summary = ContentSummary
             \/ /\ resp'.code # 200
                /\ pdfs'[id].status = pdfs[id].status
                /\ pdfs'[id].vector_index_id = pdfs[id].vector_index_id
                /\ pdfs'[id].content_summary = pdfs[id].content_summary ]_vars

\* a parse call just failed after its first upsert: the entry is indexed, the
\* document is still UPLOADED and has no index reference
C3_Witness ==
    /\ resp.op \in ParseOps
    /\ resp.code = 500
    /\ resp.pdf_id \in DOMAIN pdfs
    /\ pdfs[resp.pdf_id].status = "UPLOADED"
    /\ pdfs[resp.pdf_id].vector_index_id = NoIndexId
    /\ segment_id(resp.pdf_id, 0) \in DOMAIN index
    /\ segment_id(resp.pdf_id, 1) \notin DOMAIN index

\* C4: confirm-upload on an existing document, with the commit succeeding,
\* succeeds and sets UPLOADED when the document is in the first stage
\* (PENDING), and otherwise fails with the invalid-state error (400) and
\* leaves the row unchanged.
C4_ConfirmOnlyFromPending ==
    \A id \in DOMAIN pdfs : \A head_ok \in BOOLEAN :
        LET out == confirm_pdf_upload(id, head_ok, TRUE) IN
        IF Stage(pdfs[id].status) = 1
        THEN out.resp.code = 200 /\ out.st.pdfs[id].status = "UPLOADED"
        ELSE out.resp.code = 400 /\ out.st.pdfs = pdfs

\* C5: parse on a document in the last stage (INDEXED) fails with the
\* already-indexed error, parse on a document in the first stage (PENDING)
\* fails with the not-uploaded error, and in both cases the bucket, the index
\* and the table are unchanged.
C5_ParseStateErrors ==
    \A id \in DOMAIN pdfs :
        \A o \in AnalyzeOutcomes(id, SegmentCount(id)) :
            LET out == parse_pdf(id, o[1], o[2], o[3]) IN
            Stage(pdfs[id].status) \in {1, 3} =>
                /\ out.resp.code = 400
                /\ out.resp.detail = (IF Stage(pdfs[id].status) = 3
                                      THEN "PDF is already indexed"
                                      ELSE "PDF has not been uploaded yet")
                /\ out.st = St

\* C6: a request-upload for a filename whose document is in the first stage
\* (PENDING), with S3 and the commit succeeding, returns that document's id
\* and blob key and leaves the table as it was.
C6_UploadIdempotentWhilePending ==
    \A filename \in Filenames : \A e \in Matching(filename) :
        Stage(pdfs[e].status) = 1 =>
            LET out == pdf_db_upload_pdf(filename, e, TRUE, TRUE) IN
            /\ out.resp.code = 200
            /\ out.resp.ret_id = e
            /\ out.resp.ret_key = pdfs[e].s3_key
            /\ out.st.pdfs = pdfs

\* C7: the write URL a repeated request-upload returns for a document in the
\* first stage (PENDING) targets the blob key stored on the document.
C7_UrlTargetsExistingKey ==
    \A filename \in Filenames : \A e \in Matching(filename) :
        Stage(pdfs[e].status) = 1 =>
            LET out == pdf_db_upload_pdf(filename, e, TRUE, TRUE) IN
            /\ out.resp.code = 200
            /\ out.resp.url_key = pdfs[e].s3_key

\* C8: a request-upload for a filename whose document is UPLOADED or in the
\* last stage (INDEXED) is answered with a 4xx conflict, not with the 500 of an
\* internal failure, and creates or changes no row and hands out no key.
C8_UploadConflict ==
    \A filename \in Filenames : \A e \in Matching(filename) :
        \A o \in UploadOutcomes :
            Stage(pdfs[e].status) \in {2, 3} =>
                LET out == pdf_db_upload_pdf(filename, e, o[1], o[2]) IN
                /\ out.resp.code \in 400..499
                /\ out.st = St

\* C9: after a delete call that returned success the row is gone, the blob is
\* gone and no index entry with the document's pdf_id is left.
C9_DeleteRemovesEverything ==
    [][ (resp'.op = "delete_pdf" /\ resp'.code = 200 /\ resp'.pdf_id \in DOMAIN pdfs) =>
          LET id == resp'.pdf_id IN
          /\ id \notin DOMAIN pdfs'
          /\ pdfs[id].s3_key \notin DOMAIN s3'
          /\ \A sid \in DOMAIN index' : index'[sid].pdf_id # id ]_vars

\* the blob removal or the index cleanup of delete_pdf raises
CleanupFails(pdf_id, s3_ok, search_ok, fail_at) ==
    \/ ~s3_ok
    \/ /\ pdfs[pdf_id].vector_index_id # NoIndexId
       /\ ~search_ok \/ fail_at < HitCount(pdf_id)

\* C10: in delete, if the blob removal or the index cleanup fails the call
\* fails and the table is unchanged; and the row is removed only in a call that
\* removed the blob and, for a document with an index reference, every hit of
\* the cleanup's search.
C10_RowRemovedLast ==
    \A id \in DOMAIN pdfs :
        \A o \in DeleteOutcomes(id, HitCount(id)) :
            LET out == delete_pdf(id, o[1], o[2], o[3], o[4]) IN
            /\ CleanupFails(id, o[1], o[2], o[3]) =>
                   out.resp.code = 500 /\ out.st.pdfs = pdfs
            /\ id \notin DOMAIN out.st.pdfs =>
                   /\ out.resp.code = 200
                   /\ pdfs[id].s3_key \notin DOMAIN out.st.s3
                   /\ pdfs[id].vector_index_id # NoIndexId =>
                          Hits(index, id) \cap DOMAIN out.st.index = {}

\* a delete call just failed after the blob was removed: the row of the
\* indexed document is still there, with its status and index reference
C10_Witness ==
    /\ resp.op = "delete_pdf"
    /\ resp.code = 500
    /\ resp.pdf_id \in DOMAIN pdfs
    /\ pdfs[resp.pdf_id].status = "PARSED"
    /\ pdfs[resp.pdf_id].vector_index_id = vector_index_id(resp.pdf_id)
    /\ pdfs[resp.pdf_id].s3_key \notin DOMAIN s3

\* C11: delete of a document that was never indexed (first stage or
\* UPLOADED, no index reference), with delete_object and the commit
\* succeeding, answers 200 and removes the row and the blob, whatever the
\* index would answer: the index is not called and is left as it is.
C11_DeleteNeverIndexed ==
    \A id \in DOMAIN pdfs :
        (Stage(pdfs[id].status) \in {1, 2} /\ pdfs[id].vector_index_id = NoIndexId) =>
            \A search_ok \in BOOLEAN : \A fail_at \in 0..1 :
                LET out == delete_pdf(id, TRUE, search_ok, fail_at, TRUE) IN
                /\ out.resp.code = 200
                /\ id \notin DOMAIN out.st.pdfs
                /\ pdfs[id].s3_key \notin DOMAIN out.st.s3
                /\ out.st.index = index

\* a delete just succeeded for a document while nothing was ever indexed
C11_Witness ==
    /\ resp.op = "delete_pdf"
    /\ resp.code = 200
    /\ resp.pdf_id \notin DOMAIN pdfs
    /\ index = Empty

\* the _ids of the index entries of document pdf_id
EntriesOf(ix, pdf_id) == {id \in DOMAIN ix : ix[id].pdf_id = pdf_id}

\* C12: a parse that succeeds on a document whose object is unchanged leaves
\* exactly the entries {id}_{0} .. {id}_{n-1} for it, and a second or later
\* successful parse (after the status was put back to UPLOADED) leaves the
\* index exactly as the parse before it did: nothing is duplicated.
C12_ReparseSameEntries ==
    [][ (resp'.op = "analyze_pdf" /\ resp'.code = 200) =>
          LET id == resp'.pdf_id IN
          /\ EntriesOf(index', id) = {segment_id(id, i) : i \in 0..(SegmentCount(id) - 1)}
          /\ Cardinality(EntriesOf(index', id)) = SegmentCount(id)
          /\ (id \in DOMAIN parses /\ parses[id] >= 1) => index' = index ]_vars

\* a document of two segments was parsed successfully twice and has two entries
C12_Witness ==
    \E id \in DOMAIN pdfs :
        /\ id \in DOMAIN parses
        /\ parses[id] = 2
        /\ SegmentCount(id) = 2
        /\ pdfs[id].status = "PARSED"
        /\ Cardinality(EntriesOf(index, id)) = 2

\* both workers' requests came by `route` for the same document while it was
\* UPLOADED, its object being readable, and both have returned
BothReturned(route) ==
    /\ DOMAIN calls = {1, 2}
    /\ \A w \in {1, 2} :
          /\ calls[w].route = route
          /\ calls[w].pdf_id = calls[1].pdf_id
          /\ calls[w].row.status = "UPLOADED"
          /\ calls[w].pc = "done"
    /\ s3[calls[1].row.s3_key].readable

\* the document is in the last stage and has exactly the entries
\* {id}_{0} .. {id}_{n-1}
ParsedOnce(id) ==
    /\ Stage(pdfs[id].status) = 3
    /\ pdfs[id].vector_index_id = vector_index_id(id)
    /\ EntriesOf(index, id) = {segment_id(id, i) : i \in 0..(SegmentCount(id) - 1)}
    /\ \A i \in 0..(SegmentCount(id) - 1) :
          index[segment_id(id, i)] =
              doc(id, pdfs[id].filename, i,
                  parse_pdf_content(s3[pdfs[id].s3_key].text)[i + 1])

\* C13: when two parse requests of the pdf_db router for the same UPLOADED
\* document, interleaved in any order, have both returned, the document is in
\* the last stage (INDEXED) and the index holds exactly one entry per segment
\* id, as after one parse.
C13_ConcurrentParseConverges ==
    BothReturned("parse-pdf") => ParsedOnce(calls[1].pdf_id)

\* the same for two analyze_pdf requests of the /api/v1 router
AnalyzePdfRaceConverges ==
    BothReturned("analyze_pdf") => ParsedOnce(calls[1].pdf_id)

\* C14: a chat call returns a (response, sources) pair and does not raise;
\* the generation endpoint is always called, also after a failed search; and
\* when it fails by connection error, timeout or a non-2xx status the response
\* is one of the apologies.
C14_ChatAlwaysCompletes ==
    chat # Empty =>
        /\ ~chat.raised
        /\ chat.generated
        /\ chat.gen \in {"connection_error", "timeout", "status_500"} =>
               Len(chat.response) = 1 /\ chat.response[1] \in Apologies
        /\ chat.gen = "timeout" => chat.response = <<ApologyTimeout>>
        /\ chat.gen = "connection_error" => chat.response = <<ApologyConnection>>
        /\ chat.gen = "status_500" => chat.response = <<ApologyStatus>>

\* a chat whose search failed and whose generation request timed out
C14_Witness ==
    /\ chat # Empty
    /\ chat.use_knowledge
    /\ ~chat.search_ok
    /\ chat.gen = "timeout"
    /\ chat.response = <<ApologyTimeout>>

\* the texts of the hits, in order, with a blank line between two of them
ContextOf(hits) ==
    LET t(i) == index[hits[i]].text IN
    CASE Len(hits) = 1 -> t(1)
      [] Len(hits) = 2 -> t(1) \o <<"\n", "\n">> \o t(2)
      [] Len(hits) = 3 -> t(1) \o <<"\n", "\n">> \o t(2) \o <<"\n", "\n">> \o t(3)

\* C15: with use_knowledge true and a search that answers with hits, the
\* search asked for k = 3, the sources are the filenames of the hits, one per
\* hit and in the order of the hits (so at most 3), and the context of the
\* prompt is the texts of the hits in that order joined by a blank line.
C15_SourcesFollowHits ==
    (chat # Empty /\ chat.use_knowledge /\ chat.search_ok /\ chat.hits # <<>>) =>
        /\ chat.hits \in KnnHits(index, chat.query, 3)
        /\ Len(chat.sources) = Len(chat.hits)
        /\ Len(chat.sources) <= 3
        /\ \A i \in DOMAIN chat.hits : chat.sources[i] = index[chat.hits[i]].filename
        /\ SubSeq(chat.prompt, 3, 2 + Len(ContextOf(chat.hits))) = ContextOf(chat.hits)
        /\ chat.prompt[2] = "Context:"
        /\ chat.prompt[3 + Len(ContextOf(chat.hits))] = "<|eot_id|>"

\* a chat over an index of four entries: three sources, from both documents,
\* the first from another document than the last
C15_Witness ==
    /\ chat # Empty
    /\ chat.use_knowledge
    /\ Cardinality(DOMAIN index) = 4
    /\ Len(chat.sources) = 3
    /\ chat.sources[1] # chat.sources[3]
    /\ chat.hits[1][1] # chat.hits[3][1]

\* C16: with use_knowledge true, when the search answers without hits or
\* fails, chat returns no sources and calls the generation endpoint with the
\* prompt that has no context block.
C16_NoHitsNoContext ==
    (chat # Empty /\ chat.use_knowledge /\ (~chat.search_ok \/ chat.hits = <<>>)) =>
        /\ ~chat.raised
        /\ chat.sources = <<>>
        /\ chat.generated
        /\ "Context:" \notin Range(chat.prompt)
        /\ chat.prompt = <<SystemPlain, "<|eot_id|>">> \o chat.query \o <<AssistantHeader>>

\* a chat with use_knowledge over the empty index, answered by the model
C16_Witness ==
    /\ chat # Empty
    /\ chat.use_knowledge
    /\ chat.search_ok
    /\ index = Empty
    /\ chat.gen = "text"
    /\ chat.response = <<"h", "i">>

\* C17: search_similar_content does not raise; it returns at most k entries,
\* in descending order of score; and it returns the empty sequence when the
\* index has no entry and when the query fails.
C17_SearchNeverRaises ==
    \A query \in Queries : \A k \in 1..MaxResults : \A search_ok \in BOOLEAN :
        \A hits \in KnnHits(index, query, k) :
            LET r == search_similar_content(index, query, k, search_ok, hits) IN
            /\ ~r.raised
            /\ Len(r.value) <= k
            /\ \A i, j \in DOMAIN r.value : i < j => r.value[i].score >= r.value[j].score
            /\ (index = Empty \/ ~search_ok) => r.value = <<>>
            /\ search_ok => /\ Len(r.value) = Len(hits)
                            /\ \A i \in DOMAIN hits :
                                  r.value[i].content = index[hits[i]].text

\* a search over four entries answered with three hits of which the first
\* scores higher than the last
C17_Witness ==
    /\ chat # Empty
    /\ chat.use_knowledge
    /\ chat.search_ok
    /\ Cardinality(DOMAIN index) = 4
    /\ Len(chat.hits) = 3
    /\ Score(chat.query, index[chat.hits[1]].text) > Score(chat.query, index[chat.hits[3]].text)

\* the status names routers/pdf_db.py reads and writes
RouterTokens == {"PENDING", "UPLOADED", "INDEXED"}

\* C18: every row's status is one of PENDING, UPLOADED, INDEXED, and these
\* are exactly the members of PDFStatus, the values the ingestion handlers
\* compare with and assign.
C18_StatusTokens ==
    /\ \A id \in DOMAIN pdfs : pdfs[id].status \in RouterTokens
    /\ PDFStatus = RouterTokens

\* C19: no two rows have the same s3_key, after any sequence of request-upload
\* calls, repeated for the same filename or not.
C19_UniqueBlobKey ==
    \A a, b \in DOMAIN pdfs : a # b => pdfs[a].s3_key # pdfs[b].s3_key

\* four rows, two of them for the same filename
C19_Witness ==
    /\ Cardinality(DOMAIN pdfs) = 4
    /\ \E a, b \in DOMAIN pdfs : a # b /\ pdfs[a].filename = pdfs[b].filename
    /\ resp.op = "upload_pdf"
    /\ resp.code = 200

C21_ConfirmStoresReportedSize ==
    \A id \in DOMAIN pdfs : \A head_ok \in BOOLEAN :
        Stage(pdfs[id].status) = 1 =>
            LET out == confirm_pdf_upload(id, head_ok, TRUE)
                file_size == get_file_size(s3, pdfs[id].s3_key, head_ok)
            IN  /\ out.resp.code = 200
                /\ out.st.pdfs[id].status = "UPLOADED"
                /\ out.st.pdfs[id].file_size =
                       (IF file_size # NoSize THEN file_size ELSE pdfs[id].file_size)

\* the same statement for mark_uploaded of the /api/v1 router, which has the
\* same `if file_size:` and no status guard
MarkUploadedStoresReportedSize ==
    \A id \in DOMAIN pdfs : \A head_ok \in BOOLEAN :
        LET out == mark_uploaded(id, head_ok, TRUE)
            file_size == get_file_size(s3, pdfs[id].s3_key, head_ok)
        IN  /\ out.resp.code = 200
            /\ out.st.pdfs[id].status = "UPLOADED"
            /\ out.st.pdfs[id].file_size =
                   (IF file_size # NoSize THEN file_size ELSE pdfs[id].file_size)

\* C22: confirm-upload, parse and delete called with an id that has no row
\* fail with the not-found error (404), whatever the collaborators would
\* answer, and change nothing in the table, the bucket or the index.
C22_UnknownIdNotFound ==
    \A id \in (1..(MaxDocs + 1)) \ DOMAIN pdfs :
        \A ok1 \in BOOLEAN, ok2 \in BOOLEAN, ok3 \in BOOLEAN, k \in 0..1 :
            LET confirmed == confirm_pdf_upload(id, ok1, ok2)
                parsed == parse_pdf(id, ok1, k, ok2)
                deleted == delete_pdf(id, ok1, ok2, k, ok3)
            IN  /\ confirmed.resp.code = 404 /\ confirmed.st = St
                /\ parsed.resp.code = 404 /\ parsed.st = St
                /\ deleted.resp.code = 404 /\ deleted.st = St

\* a parse call was just answered 404 for an id without a row (the document
\* was deleted), while the index still has an entry
C22_Witness ==
    /\ resp.op = "parse-pdf"
    /\ resp.code = 404
    /\ resp.pdf_id \notin DOMAIN pdfs
    /\ next_id > resp.pdf_id
    /\ index # Empty

\* C23: for an UPLOADED document whose object is a PDF without extractable
\* text, parsing and indexing fails although every collaborator succeeds, so
\* the parse call of either router fails and leaves the row as it was
\* (UPLOADED, no index reference); no document is in the last stage with an
\* object that yields no segment.
C23_NoTextIsParseError ==
    \A id \in DOMAIN pdfs :
        (/\ pdfs[id].s3_key \in DOMAIN s3
         /\ s3[pdfs[id].s3_key].readable
         /\ parse_pdf_content(s3[pdfs[id].s3_key].text) = <<>>) =>
            /\ Stage(pdfs[id].status) # 3
            /\ pdfs[id].status = "UPLOADED" =>
                   /\ ~analyze_and_index_pdf(index, s3, id, pdfs[id].filename,
                                             pdfs[id].s3_key, TRUE, 0).ok
                   /\ \A out \in {parse_pdf(id, TRUE, 0, TRUE), analyze_pdf(id, TRUE, 0, TRUE)} :
                          /\ out.resp.code # 200
                          /\ out.st.pdfs = pdfs

\* the k-th smallest element of a set of numbers
Nth(S, k) == CHOOSE x \in S : Cardinality({y \in S : y < x}) = k - 1

\* the positions that bound the period-separated pieces of text: before the
\* first character, every period, after the last character
Cuts(text) == {0} \cup {i \in 1..Len(text) : text[i] = "."} \cup {Len(text) + 1}

\* the k-th period-separated piece of text
PieceAt(text, k) == SubSeq(text, Nth(Cuts(text), k) + 1, Nth(Cuts(text), k + 1) - 1)

\* piece from its first to its last character that is not whitespace
Trimmed(piece) ==
    LET inked == {i \in 1..Len(piece) : piece[i] \notin Whitespace} IN
    IF inked = {} THEN <<>>
    ELSE SubSeq(piece, Nth(inked, 1), Nth(inked, Cardinality(inked)))

\* the trimmed pieces of text that are not blank, in the order of the text
TrimmedPieces(text) ==
    LET kept == {k \in 1..(Cardinality(Cuts(text)) - 1) : Trimmed(PieceAt(text, k)) # <<>>}
    IN  [j \in 1..Cardinality(kept) |-> Trimmed(PieceAt(text, Nth(kept, j)))]

\* C24: for every extracted text the segmenter returns exactly the
\* period-separated pieces that are non-empty after trimming, each trimmed,
\* in the order of the text; a document in the last stage has these, and
\* nothing else, as the texts of its entries 0..n-1.
C24_SegmentsAreTrimmedPieces ==
    \A id \in DOMAIN pdfs :
        pdfs[id].s3_key \in DOMAIN s3 =>
            LET text == s3[pdfs[id].s3_key].text
                texts == parse_pdf_content(text)
            IN  /\ texts = TrimmedPieces(text)
                /\ \A i \in 1..Len(texts) : texts[i] # <<>>
                /\ Stage(pdfs[id].status) = 3 =>
                       /\ EntriesOf(index, id) = {segment_id(id, i) : i \in 0..(Len(texts) - 1)}
                       /\ \A i \in 0..(Len(texts) - 1) :
                              index[segment_id(id, i)].text = TrimmedPieces(text)[i + 1]

\* a parsed document whose text has a piece to trim, a blank piece and two
\* pieces in an order that is not alphabetical: its entries are "b", "a"
C24_Witness ==
    \E id \in DOMAIN pdfs :
        /\ Stage(pdfs[id].status) = 3
        /\ pdfs[id].s3_key \in DOMAIN s3
        /\ s3[pdfs[id].s3_key].text = <<" ", "b", ".", ".", "a">>
        /\ DOMAIN index = {segment_id(id, 0), segment_id(id, 1)}
        /\ index[segment_id(id, 0)].text = <<"b">>
        /\ index[segment_id(id, 1)].text = <<"a">>

\* what list_pdf shows for document id in table db
Listed(db, id) == {e \in list_pdfs(db, DefaultSkip, DefaultLimit) : e.id = id}

\* C25: in the /api/v1 router, with every collaborator succeeding, upload_pdf
\* succeeds and the document is listed PRE_SIGNED, mark_uploaded succeeds and
\* it is listed UPLOADED, analyze_pdf of the uploaded PDF succeeds and it is
\* listed PARSED, delete_pdf succeeds and list_pdf does not show it any more.
C25_LegacySequence ==
    [][ /\ \A filename \in Filenames : pdf_upload_pdf(filename, TRUE, TRUE).resp.code = 200
        /\ \A id \in DOMAIN pdfs :
              /\ mark_uploaded(id, TRUE, TRUE).resp.code = 200
              /\ delete_pdf(id, TRUE, TRUE, HitCount(id), TRUE).resp.code = 200
              /\ (/\ pdfs[id].status = "UPLOADED"
                  /\ pdfs[id].s3_key \in DOMAIN s3
                  /\ s3[pdfs[id].s3_key].readable)
                 => analyze_pdf(id, TRUE, SegmentCount(id), TRUE).resp.code = 200
        /\ (resp'.op = "upload_pdf" /\ resp'.code = 200) =>
              Listed(pdfs', resp'.ret_id) = {[id |-> resp'.ret_id, status |-> "PRE_SIGNED"]}
        /\ (resp'.op = "mark_uploaded" /\ resp'.code = 200) =>
              Listed(pdfs', resp'.pdf_id) = {[id |-> resp'.pdf_id, status |-> "UPLOADED"]}
        /\ (resp'.op = "analyze_pdf" /\ resp'.code = 200) =>
              Listed(pdfs', resp'.pdf_id) = {[id |-> resp'.pdf_id, status |-> "PARSED"]}
        /\ (resp'.op = "delete_pdf" /\ resp'.code = 200) =>
              /\ Listed(pdfs, resp'.pdf_id) # {}
              /\ Listed(pdfs', resp'.pdf_id) = {} ]_vars

\* a document that was uploaded, marked, analyzed with success and then
\* deleted with success: list_pdf is empty, and so are bucket and index
C25_Witness ==
    /\ resp.op = "delete_pdf"
    /\ resp.code = 200
    /\ resp.pdf_id \in DOMAIN parses
    /\ parses[resp.pdf_id] = 1
    /\ list_pdfs(pdfs, DefaultSkip, DefaultLimit) = {}
    /\ s3 = Empty
    /\ index = Empty

\* C26: when a parse call on an UPLOADED document of n segments fails after k
\* upserts succeeded (upsert k raises, k < n, or all n succeed and the commit
\* fails), the call answers 500, the table is as before (the document is
\* UPLOADED), and the index holds entries {id}_0..{id}_{k-1} with the first k
\* segments while every other entry is as before.
C26_FailedParseKeepsEntries ==
    \A id \in DOMAIN pdfs :
        (/\ pdfs[id].status = "UPLOADED"
         /\ pdfs[id].s3_key \in DOMAIN s3
         /\ s3[pdfs[id].s3_key].readable) =>
            LET texts == parse_pdf_content(s3[pdfs[id].s3_key].text)
                n == Len(texts)
            IN  \A k \in 0..n :
                    LET out == analyze_pdf(id, TRUE, k, k < n)
                        written == {segment_id(id, i) : i \in 0..(k - 1)}
                    IN  /\ out.resp.code = 500
                        /\ out.st.pdfs = pdfs
                        /\ DOMAIN out.st.index = DOMAIN index \cup written
                        /\ \A i \in 0..(k - 1) :
                               /\ out.st.index[segment_id(id, i)].pdf_id = id
                               /\ out.st.index[segment_id(id, i)].text = texts[i + 1]
                        /\ \A sid \in DOMAIN index \ written : out.st.index[sid] = index[sid]

\* a parse call just failed at the commit after both upserts: the document is
\* still UPLOADED without index reference, both entries are indexed
C26_Witness ==
    /\ resp.op \in ParseOps
    /\ resp.code = 500
    /\ resp.pdf_id \in DOMAIN pdfs
    /\ pdfs[resp.pdf_id].status = "UPLOADED"
    /\ pdfs[resp.pdf_id].vector_index_id = NoIndexId
    /\ SegmentCount(resp.pdf_id) = 2
    /\ {segment_id(resp.pdf_id, 0), segment_id(resp.pdf_id, 1)} \subseteq DOMAIN index

\* C27: delete_pdf_from_index, with the search and every delete succeeding,
\* succeeds; for a document without entries it leaves the index as it is;
\* and a second call right after the first leaves the index as the first
\* call left it.
C27_DeleteByDocumentIdempotent ==
    \A pdf_id \in 1..(next_id - 1) :
        LET all == Cardinality(DOMAIN index)
            once == delete_pdf_from_index(index, vector_index_id(pdf_id), TRUE, all)
            twice == delete_pdf_from_index(once.index, vector_index_id(pdf_id), TRUE, all)
        IN  /\ once.ok
            /\ twice.ok
            /\ EntriesOf(index, pdf_id) = {} => once.index = index
            /\ twice.index = once.index

\* the same statement for documents of at most DefaultSearchSize entries
CleanupOfShortDocumentIdempotent ==
    \A pdf_id \in 1..(next_id - 1) :
        Cardinality(EntriesOf(index, pdf_id)) <= DefaultSearchSize =>
            LET all == Cardinality(DOMAIN index)
                once == delete_pdf_from_index(index, vector_index_id(pdf_id), TRUE, all)
                twice == delete_pdf_from_index(once.index, vector_index_id(pdf_id), TRUE, all)
            IN  /\ once.ok
                /\ twice.ok
                /\ EntriesOf(once.index, pdf_id) = {}
                /\ twice.index = once.index

\* C28: a chat call issues at most one request to the generation endpoint;
\* after a timeout, a connection failure or a non-2xx status it has issued
\* exactly one and returns the apology for that outcome, not an answer of a
\* later request.
C28_OneGenerationRequest ==
    chat # Empty =>
        /\ chat.posts <= 1
        /\ chat.gen \in {"timeout", "connection_error", "status_500"} =>
               /\ chat.posts = 1
               /\ chat.response = (CASE chat.gen = "timeout" -> <<ApologyTimeout>>
                                     [] chat.gen = "connection_error" -> <<ApologyConnection>>
                                     [] chat.gen = "status_500" -> <<ApologyStatus>>)

\* a chat without retrieval whose one generation request found no connection
C28_Witness ==
    /\ chat # Empty
    /\ ~chat.use_knowledge
    /\ chat.gen = "connection_error"
    /\ chat.posts = 1
    /\ chat.response = <<ApologyConnection>>

\* C29: a parse call on document d, successful or not, leaves every row but
\* d's and the bucket as they were, removes no index entry, and every entry
\* it adds or changes has the id {d}_{i} and pdf_id d: the entries of every
\* other document are unchanged.
C29_ParseTouchesOwnEntriesOnly ==
    [][ resp'.op \in ParseOps =>
          LET d == resp'.pdf_id IN
          /\ DOMAIN pdfs' = DOMAIN pdfs
          /\ \A id \in DOMAIN pdfs \ {d} : pdfs'[id] = pdfs[id]
          /\ s3' = s3
          /\ \A sid \in DOMAIN index :
                /\ sid \in DOMAIN index'
                /\ index[sid].pdf_id # d => index'[sid] = index[sid]
          /\ \A sid \in DOMAIN index' :
                (sid \notin DOMAIN index \/ index'[sid] # index[sid]) =>
                    /\ Len(sid) = 2
                    /\ sid[1] = d
                    /\ sid[2] \in Nat
                    /\ index'[sid].pdf_id = d ]_vars

\* document 2 was just parsed with success while document 1 is parsed too:
\* each has its own two entries
C29_Witness ==
    /\ resp.op \in ParseOps
    /\ resp.code = 200
    /\ resp.pdf_id = 2
    /\ DOMAIN pdfs = {1, 2}
    /\ Stage(pdfs[1].status) = 3
    /\ DOMAIN index = {<<1, 0>>, <<1, 1>>, <<2, 0>>, <<2, 1>>}
    /\ \A sid \in DOMAIN index : index[sid].pdf_id = sid[1]

\* C30: with use_knowledge false, whatever the index holds and would answer,
\* chat does not query the index, builds the prompt without context block
\* and returns an empty sequence of sources.
C30_NoKnowledgeNoSearch ==
    (chat # Empty /\ ~chat.use_knowledge) =>
        /\ chat.searches = 0
        /\ ~chat.raised
        /\ "Context:" \notin Range(chat.prompt)
        /\ chat.prompt = <<SystemPlain, "<|eot_id|>">> \o chat.query \o <<AssistantHeader>>
        /\ chat.sources = <<>>
        /\ chat.code = 200

\* a chat without use_knowledge over an index with four entries, for a query
\* that a search would have answered with three hits
C30_Witness ==
    /\ chat # Empty
    /\ ~chat.use_knowledge
    /\ Cardinality(DOMAIN index) = 4
    /\ chat.search_ok
    /\ Len(chat.hits) = 3
    /\ chat.sources = <<>>
    /\ chat.gen = "text"
    /\ chat.response = <<"h", "i">>

\* two upload requests for the same filename have both returned, each having
\* found no row for the filename, with S3 and the database answering both
BothUploadsReturned ==
    /\ DOMAIN calls = {1, 2}
    /\ calls[1].filename = calls[2].filename
    /\ \A w \in {1, 2} :
          /\ calls[w].pc = "done"
          /\ calls[w].existing_pdf = NoId
          /\ ~calls[w].failed

\* C31: when two request-upload calls for the same new filename, both having
\* looked the filename up before either committed, have returned, at most one
\* row has that filename and both calls returned the same id and blob key.
C31_ConcurrentUploadOneRecord ==
    BothUploadsReturned =>
        /\ Cardinality(Matching(calls[1].filename)) <= 1
        /\ \A w \in {1, 2} : calls[w].code = 200
        /\ calls[1].ret_id = calls[2].ret_id
        /\ calls[1].ret_key = calls[2].ret_key

\* after any interleaving of such requests the table has no row the
\* requests created: every one of them was answered 500
UploadRaceCreatesNothing ==
    /\ \A id \in DOMAIN pdfs : pdfs[id].status = "PRE_SIGNED"
    /\ \A w \in DOMAIN calls : calls[w].pc = "done" => calls[w].code = 500

\* C32: mark_uploaded of the /api/v1 router moves no document backward: a
\* PARSED document is still PARSED after the call, and so after every step a
\* document with an index reference has status PARSED.
C32_MarkUploadedNeverBackward ==
    [][ \A id \in DOMAIN pdfs' :
          /\ (resp'.op = "mark_uploaded" /\ id \in DOMAIN pdfs /\ pdfs[id].status = "PARSED")
                => pdfs'[id].status = "PARSED"
          /\ pdfs'[id].vector_index_id # NoIndexId => pdfs'[id].status = "PARSED" ]_vars

====
